---- MODULE Spec2Model ----
(***************************************************************************)
(* Graph lowering and connection resolution of a Holoscan fragment:        *)
(* Fragment::add_flow builds the operator graph, GXFExecutor lowers it     *)
(* (virtual operators for connection items, topological initialization,   *)
(* cycle mitigation, direct and broadcast connections).                    *)
(***************************************************************************)
EXTENDS Integers, Sequences, FiniteSets, Bags, TLC

(* ------------------------------------------------------------------ *)
(* Bounds of the model                                                  *)
(* ------------------------------------------------------------------ *)
NumOps == 3          \* user operators of the fragment
MaxFlows == 3        \* add_flow calls per composition pass
MaxAdds == 1         \* add_operator is called while the graph has fewer nodes
MaxItems == 1        \* connection items handed to the executor per pass
MaxRuns == 2         \* executor runs of one fragment
MaxProgram == 2      \* add_flow calls of a replayed compose()
FixedQueueSize == 4  \* the queue size of the input declared with a fixed size

(* ------------------------------------------------------------------ *)
(* Program constants                                                    *)
(* ------------------------------------------------------------------ *)
kAnySize == -1
kPrecedingCount == 0
kSizeOne == 1

(* A port label: a name and an index; the index is -1 for a plain label  *)
(* and k for the label fmt::format("{}:{}", name, k).                    *)
P(name) == <<name, -1>>
Indexed(name, k) == <<name[1], k>>
EmptyLabel == P("")
NullPort == P("null")
kOutputExecPortName == P("__output_exec__")
kInputExecPortName == P("__input_exec__")

(* Operator identities: class, owning user operator, port, index.       *)
U(i) == <<"op", i, EmptyLabel, 0>>
UserOps == {U(i) : i \in 1..NumOps}
VirtualTx(o, p, k) == <<"virtual_tx", o[2], p, k>>
VirtualRx(o, p, k) == <<"virtual_rx", o[2], p, k>>
ForwardOf(o, p, k) == <<"forward", o[2], p, k>>

(* ------------------------------------------------------------------ *)
(* IOSpec and Operator records                                          *)
(* ------------------------------------------------------------------ *)
IOSpec(q, ct) ==
  [queue_size |-> q, connector_type |-> ct, conditions |-> <<>>,
   connector |-> "null", capacity |-> 0]

NoPorts == [p \in {} |-> IOSpec(kSizeOne, "kDefault")]

(* No GPU device: the value of gpu_device before one is found.           *)
kNoDevice == -1

Operator(type, ins, outs, params) ==
  [type |-> type, inputs |-> ins, outputs |-> outs,
   params |-> [p \in params |-> 0],
   input_exec_spec |-> NullPort, output_exec_spec |-> NullPort,
   id |-> -1, metadata_policy |-> "kDefault",
   multi_port_conditions |-> <<>>,
   non_default_input_ports |-> {}, non_default_output_ports |-> {},
   dev_id |-> kNoDevice]

(* Operator::metadata_policy(policy), called by the application.         *)
WithPolicy(op, policy) == [op EXCEPT !.metadata_policy = policy]

(* Operator declarations (what setup() declares).                        *)
Bare(type) == Operator(type, NoPorts, NoPorts, {})
Src ==
  Operator("kNative", NoPorts, (P("out") :> IOSpec(kSizeOne, "kDefault")), {})
Src2 ==
  Operator("kNative", NoPorts,
           (P("out") :> IOSpec(kSizeOne, "kDefault")) @@
           (P("out2") :> IOSpec(kSizeOne, "kDefault")), {})
Mid(q) ==
  Operator("kNative", (P("in") :> IOSpec(q, "kDefault")),
           (P("out") :> IOSpec(kSizeOne, "kDefault")), {})
Sink2 ==
  Operator("kNative",
           (P("in") :> IOSpec(kSizeOne, "kDefault")) @@
           (P("in2") :> IOSpec(kPrecedingCount, "kDefault")), NoPorts, {})
Multi ==
  Operator("kNative", (P("receivers") :> IOSpec(kAnySize, "kDefault")),
           (P("out") :> IOSpec(kSizeOne, "kDefault")), {P("receivers")})

(* An operator whose output was declared with a UCX connector, and one   *)
(* with two inputs.                                                      *)
MidUcx ==
  Operator("kNative", (P("in") :> IOSpec(kSizeOne, "kDefault")),
           (P("out") :> IOSpec(kSizeOne, "kUCX")), {})
Join ==
  Operator("kNative",
           (P("in") :> IOSpec(kSizeOne, "kDefault")) @@
           (P("in2") :> IOSpec(kSizeOne, "kDefault")),
           (P("out") :> IOSpec(kSizeOne, "kDefault")), {})

(* An operator whose input has a UCX connector.                          *)
MidUcxIn ==
  Operator("kNative", (P("in") :> IOSpec(kSizeOne, "kUCX")),
           (P("out") :> IOSpec(kSizeOne, "kDefault")), {})

(* A queue size below one that is not the kAnySize marker.               *)
InvalidQueueSize == kAnySize - 1

(* The condition an IOSpec holds: its type and its min_size argument.    *)
Condition(type, min_size) == [type |-> type, min_size |-> min_size]

(* A source whose "out" is named by a condition the application passed   *)
(* as an argument and whose "out2" was declared with                     *)
(* condition(ConditionType::kNone).                                      *)
SrcConditions ==
  [Src2 EXCEPT !.outputs[P("out2")].conditions = <<Condition("kNone", 0)>>,
               !.non_default_output_ports = {P("out")}]

(* A sink whose two inputs are the ports of one multi-message condition. *)
SinkMultiMessage ==
  [Sink2 EXCEPT !.multi_port_conditions = << {P("in"), P("in2")} >>]

(* A sink whose "in" was declared with condition(ConditionType::kNone)   *)
(* and whose "in2" is named by a condition passed as an argument.        *)
SinkConditions ==
  [Sink2 EXCEPT !.inputs[P("in")].conditions = <<Condition("kNone", 0)>>,
                !.non_default_input_ports = {P("in2")}]

(* ------------------------------------------------------------------ *)
(* The operator graph (nodes in insertion order, one port map per edge) *)
(* ------------------------------------------------------------------ *)
NoEdges == [e \in {} |-> [p \in {} |-> {}]]

get_nodes(ns) == ns

get_previous_nodes(ns, es, v) ==
  SelectSeq(ns, LAMBDA u : <<u, v>> \in DOMAIN es)

get_next_nodes(ns, es, u) ==
  SelectSeq(ns, LAMBDA v : <<u, v>> \in DOMAIN es)

SeqToSet(s) == {s[i] : i \in DOMAIN s}

(* graph().add_node: a node already in the graph is not added twice.     *)
add_node(ns, o) == IF o \in SeqToSet(ns) THEN ns ELSE Append(ns, o)

(* Merge of a port map into the port map an edge already has: the       *)
(* destinations of a source port accumulate.                             *)
MergePortMap(old, new) ==
  [k \in DOMAIN old \cup DOMAIN new |->
     (IF k \in DOMAIN old THEN old[k] ELSE {}) \cup
     (IF k \in DOMAIN new THEN new[k] ELSE {})]

graph_add_flow(ns, es, u, v, pm) ==
  [nodes |-> add_node(add_node(ns, u), v),
   edges |-> IF <<u, v>> \in DOMAIN es
             THEN [es EXCEPT ![<<u, v>>] = MergePortMap(es[<<u, v>>], pm)]
             ELSE (<<u, v>> :> pm) @@ es]

(* ------------------------------------------------------------------ *)
(* Ordering of labels: std::set and std::map iterate in key order.      *)
(* ------------------------------------------------------------------ *)
LabelNames ==
  <<"", "__input_exec__", "__output_exec__", "bogus", "in", "in2", "out",
    "out2", "receivers", "unknown">>

NameRank(n) == CHOOSE i \in DOMAIN LabelNames : LabelNames[i] = n

LabelLess(a, b) ==
  \/ NameRank(a[1]) < NameRank(b[1])
  \/ a[1] = b[1] /\ a[2] < b[2]

RECURSIVE SortLabels(_)
SortLabels(S) ==
  IF S = {} THEN <<>>
  ELSE LET m == CHOOSE x \in S : \A y \in S \ {x} : LabelLess(x, y)
       IN <<m>> \o SortLabels(S \ {m})

(* ------------------------------------------------------------------ *)
(* GXFExecutor::add_receivers and GXFExecutor::add_control_flow         *)
(* ------------------------------------------------------------------ *)
(* A new input port "<receivers_name>:<iospec_vector.size()>" is added   *)
(* to the operator and to the parameter's IOSpec vector.                 *)
add_receivers(op, receivers_name) ==
  LET new_input_label == Indexed(receivers_name, op.params[receivers_name])
  IN [op |-> [op EXCEPT
                !.inputs = (new_input_label :> IOSpec(kSizeOne, "kDefault")) @@ @,
                !.params[receivers_name] = @ + 1],
      label |-> new_input_label]

(* outputs().begin() and inputs().begin() of an unordered map: any of   *)
(* the map's keys can be the first one.                                  *)
MapBegin(m) == DOMAIN m

(* The upstream half of add_control_flow; the set of its outcomes.       *)
add_output_exec(op) ==
  IF op.output_exec_spec # NullPort THEN {op}
  ELSE LET outs == (kOutputExecPortName :> IOSpec(kSizeOne, "kDefault"))
                     @@ op.outputs
       IN {[op EXCEPT !.outputs = outs, !.output_exec_spec = b] :
             b \in MapBegin(outs)}

(* The downstream half of add_control_flow.                              *)
add_input_exec(op) ==
  IF op.input_exec_spec # NullPort THEN {op}
  ELSE LET ins == (kInputExecPortName :> IOSpec(kPrecedingCount, "kDefault"))
                    @@ op.inputs
       IN {[op EXCEPT !.inputs = ins, !.input_exec_spec = b] :
             b \in MapBegin(ins)}

add_control_flow(os, u, d) ==
  UNION {{[o1 EXCEPT ![d] = dn] : dn \in add_input_exec(o1[d])} :
           o1 \in {[os EXCEPT ![u] = up] : up \in add_output_exec(os[u])}}

(* ------------------------------------------------------------------ *)
(* Fragment::add_flow                                                   *)
(* ------------------------------------------------------------------ *)
Rejected(os, ns, es, why) ==
  [ok |-> FALSE, ops |-> os, nodes |-> ns, edges |-> es, error |-> why,
   control |-> FALSE]

Accepted(os, ns, es, ctl) ==
  [ok |-> TRUE, ops |-> os, nodes |-> ns, edges |-> es, error |-> "",
   control |-> ctl]

(* The test that routes an add_flow with empty port_pairs to the         *)
(* control-flow branch.                                                  *)
IsControlFlow(dop) ==
  DOMAIN dop.inputs = {} \/ dop.input_exec_spec # NullPort

(* A test that takes every operator for a native one.                   *)
BothNative_whatever_type(uop, dop) == TRUE

BothNative(uop, dop) == uop.type = "kNative" /\ dop.type = "kNative"

(* The loop over the input labels of one output label.  st carries the   *)
(* downstream operator, the new input labels and the loop's status.      *)
RECURSIVE InputLabelLoop(_, _, _)
InputLabelLoop(st, labels, n_labels) ==
  IF labels = <<>> \/ st.status # "go" THEN st
  ELSE
    LET input_label == Head(labels)
        dop == st.dop
        found == input_label \in DOMAIN dop.inputs
        is_receivers == found /\ dop.inputs[input_label].queue_size = kAnySize
        sole == CHOOSE l \in DOMAIN dop.inputs : TRUE
        defaulting == /\ ~is_receivers
                      /\ Cardinality(DOMAIN dop.inputs) = 1
                      /\ n_labels = 1
                      /\ input_label = EmptyLabel
        input_receivers_label ==
          IF defaulting /\ dop.inputs[sole].queue_size = kAnySize
          THEN sole ELSE input_label
        added == add_receivers(dop, input_receivers_label)
        next ==
          IF is_receivers \/ ~found
          THEN IF defaulting /\ dop.inputs[sole].queue_size # kAnySize
               THEN [st EXCEPT !.labels = @ \cup {sole}, !.status = "break"]
               ELSE IF input_receivers_label \in DOMAIN dop.params
               THEN [st EXCEPT !.dop = added.op,
                               !.labels = @ \cup {added.label}]
               ELSE IF DOMAIN dop.inputs = {}
               THEN [st EXCEPT !.status = "no input port"]
               ELSE [st EXCEPT !.status = "missing input port"]
          ELSE [st EXCEPT !.labels = @ \cup {input_label}]
    IN InputLabelLoop(next, Tail(labels), n_labels)

(* The loop over the output labels: st carries the downstream operator,  *)
(* the port map and the status.                                          *)
RECURSIVE OutputLabelLoop(_, _)
OutputLabelLoop(st, output_labels) ==
  IF output_labels = <<>> \/ st.status # "go" THEN st
  ELSE
    LET output_label == Head(output_labels)
        input_labels == st.port_map[output_label]
        inner == InputLabelLoop([dop |-> st.dop, labels |-> {}, status |-> "go"],
                                SortLabels(input_labels),
                                Cardinality(input_labels))
        next ==
          IF Cardinality(DOMAIN st.dop.inputs) = 1 /\ Cardinality(input_labels) # 1
          THEN [st EXCEPT !.status = "one input port, several labels"]
          ELSE IF inner.status \in {"go", "break"}
          THEN [st EXCEPT !.dop = inner.dop,
                          !.port_map[output_label] = inner.labels]
          ELSE [st EXCEPT !.dop = inner.dop, !.status = inner.status]
    IN OutputLabelLoop(next, Tail(output_labels))

(* The end of add_flow: the downstream operator keeps the ports the     *)
(* label loops added; the edge is added unless a loop failed.            *)
finish_data_flow(os, ns, es, u, d, looped) ==
  IF looped.status # "go"
  THEN Rejected([os EXCEPT ![d] = looped.dop], ns, es, looped.status)
  ELSE Accepted([os EXCEPT ![d] = looped.dop],
                add_node(add_node(ns, u), d),
                graph_add_flow(ns, es, u, d, looped.port_map).edges, FALSE)

(* add_flow with port pairs (given, or the defaulted pair of empty       *)
(* labels).                                                              *)
add_data_flow(os, ns, es, u, d, port_pairs) ==
  LET op_outputs == os[u].outputs
      keys == {pp[1] : pp \in port_pairs}
      port_map == [k \in keys |-> {pp[2] : pp \in {q \in port_pairs : q[1] = k}}]
      missing == keys \ DOMAIN op_outputs
      sole_out == CHOOSE l \in DOMAIN op_outputs : TRUE
      default_out == /\ Cardinality(DOMAIN op_outputs) = 1
                     /\ Cardinality(keys) = 1
                     /\ keys = {EmptyLabel}
      port_map1 == IF missing # {} /\ default_out
                   THEN (sole_out :> port_map[EmptyLabel])
                   ELSE port_map
  IN IF Cardinality(DOMAIN op_outputs) = 1 /\ Cardinality(keys) # 1
     THEN Rejected(os, ns, es, "one output port, several labels")
     ELSE IF missing # {} /\ ~default_out
     THEN Rejected(os, ns, es,
                   IF DOMAIN op_outputs = {} THEN "no output port"
                   ELSE "missing output port")
     ELSE finish_data_flow(os, ns, es, u, d,
            OutputLabelLoop([dop |-> os[d], port_map |-> port_map1,
                             status |-> "go"],
                            SortLabels(DOMAIN port_map1)))

(* An add_flow that maps the first output port to the first input port  *)
(* when port_pairs is empty and there are several candidates.            *)
add_flow_first_ports(os, ns, es, u, d, port_pairs) ==
  IF port_pairs = {}
  THEN IF IsControlFlow(os[d])
       THEN IF ~BothNative(os[u], os[d])
            THEN {Rejected(os, ns, es, "not native")}
            ELSE LET g == graph_add_flow(ns, es, u, d,
                            (kOutputExecPortName :> {kInputExecPortName}))
                 IN {Accepted(o2, g.nodes, g.edges, TRUE) :
                       o2 \in add_control_flow(os, u, d)}
       ELSE IF DOMAIN os[u].outputs = {}
       THEN {add_data_flow(os, ns, es, u, d, {<<EmptyLabel, EmptyLabel>>})}
       ELSE {add_data_flow(os, ns, es, u, d,
               {<<Head(SortLabels(DOMAIN os[u].outputs)),
                  Head(SortLabels(DOMAIN os[d].inputs))>>})}
  ELSE {add_data_flow(os, ns, es, u, d, port_pairs)}

(* Fragment::add_flow(upstream_op, downstream_op, port_pairs): the set   *)
(* of its outcomes.                                                      *)
add_flow(os, ns, es, u, d, port_pairs) ==
  IF port_pairs = {}
  THEN IF IsControlFlow(os[d])
       THEN IF ~BothNative(os[u], os[d])
            THEN {Rejected(os, ns, es, "not native")}
            ELSE LET g == graph_add_flow(ns, es, u, d,
                            (kOutputExecPortName :> {kInputExecPortName}))
                 IN {Accepted(o2, g.nodes, g.edges, TRUE) :
                       o2 \in add_control_flow(os, u, d)}
       ELSE IF Cardinality(DOMAIN os[u].outputs) > 1
       THEN {Rejected(os, ns, es, "ambiguous output port")}
       ELSE IF Cardinality(DOMAIN os[d].inputs) > 1
       THEN {Rejected(os, ns, es, "ambiguous input port")}
       ELSE {add_data_flow(os, ns, es, u, d, {<<EmptyLabel, EmptyLabel>>})}
  ELSE {add_data_flow(os, ns, es, u, d, port_pairs)}

(* ------------------------------------------------------------------ *)
(* GXFExecutor::create_input_port / create_output_port /                *)
(* initialize_operator                                                  *)
(* ------------------------------------------------------------------ *)
(* IOSpec::connector(type, args)                                         *)
set_connector(io, ct, c) == [io EXCEPT !.connector_type = ct, !.connector = c]

(* A count of the previous nodes that target the port, one per node.    *)
connection_count_per_node(ns, es, v, rx_name) ==
  Cardinality({u \in SeqToSet(get_previous_nodes(ns, es, v)) :
                 \E l \in DOMAIN es[<<u, v>>] : rx_name \in es[<<u, v>>][l]})

(* The connection_count of create_input_port: over the previous nodes    *)
(* and the source ports of their port maps, target_ports.count(rx_name). *)
connection_count(ns, es, v, rx_name) ==
  Cardinality(UNION {{<<u, k>> : k \in {l \in DOMAIN es[<<u, v>>] :
                                           rx_name \in es[<<u, v>>][l]}} :
                       u \in SeqToSet(get_previous_nodes(ns, es, v))})

(* The queue size create_input_port works with: the number of          *)
(* preceding connections for kPrecedingCount, else the declared one.     *)
resolved_queue_size(io, count) ==
  IF io.queue_size = kPrecedingCount THEN count ELSE io.queue_size

port_has_multi_port_condition(op, rx_name) ==
  \E i \in DOMAIN op.multi_port_conditions :
    rx_name \in op.multi_port_conditions[i]

(* A create_input_port without the test of the queue size.               *)
create_input_port_any_size(op, rx_name, count) ==
  LET io == op.inputs[rx_name]
      queue_size == resolved_queue_size(io, count)
      rx == IF io.connector_type = "kDefault"
            THEN [io EXCEPT !.connector = "DoubleBufferReceiver",
                            !.capacity = queue_size]
            ELSE io
  IN IF io.queue_size = kAnySize THEN [ok |-> TRUE, io |-> io]
     ELSE [ok |-> TRUE,
           io |-> IF /\ rx.conditions = <<>>
                     /\ ~port_has_multi_port_condition(op, rx_name)
                     /\ rx_name \notin op.non_default_input_ports
                  THEN [rx EXCEPT !.conditions =
                          <<Condition("kMessageAvailable", queue_size)>>]
                  ELSE rx]

(* A create_input_port that looks at the port's own conditions only.     *)
create_input_port_own_conditions(op, rx_name, count) ==
  LET io == op.inputs[rx_name]
      queue_size == resolved_queue_size(io, count)
      rx == IF io.connector_type = "kDefault"
            THEN [io EXCEPT !.connector = "DoubleBufferReceiver",
                            !.capacity = queue_size]
            ELSE io
  IN IF io.queue_size = kAnySize THEN [ok |-> TRUE, io |-> io]
     ELSE IF queue_size < 1 THEN [ok |-> FALSE, io |-> io]
     ELSE [ok |-> TRUE,
           io |-> IF rx.conditions = <<>>
                  THEN [rx EXCEPT !.conditions =
                          <<Condition("kMessageAvailable", queue_size)>>]
                  ELSE rx]

(* create_input_port for the input rx_name of op: ok = FALSE is the      *)
(* std::runtime_error for a queue size below one.                        *)
create_input_port(op, rx_name, count) ==
  LET io == op.inputs[rx_name]
      queue_size == resolved_queue_size(io, count)
      rx == IF io.connector_type = "kDefault"
            THEN [io EXCEPT !.connector = "DoubleBufferReceiver",
                            !.capacity = queue_size]
            ELSE io
      port_has_user_supplied_condition ==
        rx_name \in op.non_default_input_ports
      with_condition ==
        IF /\ rx.conditions = <<>>
           /\ ~port_has_multi_port_condition(op, rx_name)
           /\ ~port_has_user_supplied_condition
        THEN [rx EXCEPT !.conditions =
                <<Condition("kMessageAvailable", queue_size)>>]
        ELSE rx
  IN IF io.queue_size = kAnySize THEN [ok |-> TRUE, io |-> io]
     ELSE IF queue_size < 1 THEN [ok |-> FALSE, io |-> io]
     ELSE [ok |-> TRUE, io |-> with_condition]

(* A create_output_port that gives every output without a condition the  *)
(* default one, whatever its connector.                                  *)
create_output_port_any_connector(op, tx_name) ==
  LET io == op.outputs[tx_name]
      tx == IF io.connector_type = "kDefault"
            THEN [io EXCEPT !.connector = "DoubleBufferTransmitter"]
            ELSE io
  IN IF tx.conditions = <<>> /\ tx_name \notin op.non_default_output_ports
     THEN [tx EXCEPT !.conditions =
             <<Condition("kDownstreamMessageAffordable", kSizeOne)>>]
     ELSE tx

create_output_port(op, tx_name) ==
  LET io == op.outputs[tx_name]
      tx == IF io.connector_type = "kDefault"
            THEN [io EXCEPT !.connector = "DoubleBufferTransmitter"]
            ELSE io
  IN IF /\ tx.conditions = <<>>
        /\ io.connector_type # "kUCX"
        /\ tx_name \notin op.non_default_output_ports
     THEN [tx EXCEPT !.conditions =
             <<Condition("kDownstreamMessageAffordable", kSizeOne)>>]
     ELSE tx

(* The codelet id an initialized operator gets (any value but -1).       *)
CodeletId == 1

(* Operator::initialize() of the operator o: the set of its outcomes.    *)
(* A virtual operator creates no codelet and keeps the id -1.            *)
(* ok = FALSE: the input port `thrown` threw; the inputs are visited in  *)
(* the order of an unordered map, so any of the other inputs that do not *)
(* throw may have been created before.                                   *)
initialize_operator(os, ns, es, o) ==
  LET op == os[o]
      ins == [l \in DOMAIN op.inputs |->
                create_input_port(op, l, connection_count(ns, es, o, l))]
      throwing == {l \in DOMAIN ins : ~ins[l].ok}
      started ==
        [op EXCEPT !.id = CodeletId,
                   !.metadata_policy = IF @ = "kDefault" THEN "kFragment" ELSE @]
  IN IF op.type = "kVirtual"
     THEN {[ok |-> TRUE, op |-> op, thrown |-> NullPort]}
     ELSE IF throwing # {}
     THEN {[ok |-> FALSE,
            op |-> [started EXCEPT
                      !.inputs = [l \in DOMAIN ins |->
                                    IF l \in created THEN ins[l].io
                                    ELSE op.inputs[l]]],
            thrown |-> l0] :
             l0 \in throwing, created \in SUBSET (DOMAIN ins \ throwing)}
     ELSE {[ok |-> TRUE,
            op |-> [started EXCEPT
                      !.inputs = [l \in DOMAIN ins |-> ins[l].io],
                      !.outputs = [l \in DOMAIN op.outputs |->
                                     create_output_port(op, l)]],
            thrown |-> NullPort]}

(* ------------------------------------------------------------------ *)
(* Cycle mitigation of initialize_fragment                              *)
(* ------------------------------------------------------------------ *)
self_cycle(o, prev_operators) == o \in SeqToSet(prev_operators)

(* A detection that sees self-edges only.                                *)
cycle_detected_self_only(o, prev_operators, visited_nodes) ==
  self_cycle(o, prev_operators)

cycle_detected(o, prev_operators, visited_nodes) ==
  \/ self_cycle(o, prev_operators)
  \/ \E p \in SeqToSet(prev_operators) : p \notin visited_nodes

(* A mitigation that leaves the metadata policy as it is.                *)
cycle_mitigation_keeping_policy(op, o, prev_operators, visited_nodes) ==
  IF op.input_exec_spec = NullPort
     \/ ~cycle_detected(o, prev_operators, visited_nodes)
  THEN op
  ELSE LET sized == [op EXCEPT !.inputs[op.input_exec_spec].queue_size = kSizeOne]
       IN IF self_cycle(o, prev_operators) /\ op.output_exec_spec # NullPort
          THEN [sized EXCEPT !.outputs[op.output_exec_spec].conditions =
                               Append(@, Condition("kNone", 0))]
          ELSE sized

(* The operator after the mitigation block; visited_nodes holds o.       *)
cycle_mitigation(op, o, prev_operators, visited_nodes) ==
  IF op.input_exec_spec = NullPort
     \/ ~cycle_detected(o, prev_operators, visited_nodes)
  THEN op
  ELSE LET sized == [op EXCEPT !.inputs[op.input_exec_spec].queue_size = kSizeOne,
                               !.metadata_policy = "kUpdate"]
       IN IF self_cycle(o, prev_operators) /\ op.output_exec_spec # NullPort
          THEN [sized EXCEPT !.outputs[op.output_exec_spec].conditions =
                               Append(@, Condition("kNone", 0))]
          ELSE sized

(* The mitigation block dereferences a null output_exec_spec.            *)
mitigation_derefs_null(op, o, prev_operators) ==
  /\ op.input_exec_spec # NullPort
  /\ self_cycle(o, prev_operators)
  /\ op.output_exec_spec = NullPort

(* ------------------------------------------------------------------ *)
(* Connections and broadcast entities                                   *)
(* ------------------------------------------------------------------ *)
(* The components a Connection joins: an operator's port, the "source"   *)
(* receiver of a broadcast entity, the k-th transmitter of a broadcast.  *)
Port(o, p) == <<"port", o, p, 0>>
BroadcastRx(o, p) == <<"broadcast_rx", o, p, 0>>
Btx(o, p, k) == <<"btx", o, p, k>>

add_connection(cs, source, target) == cs (+) SetToBag({<<source, target>>})

HasBroadcast(bc, o) == \E b \in DOMAIN bc : b[1] = o

(* The min_size of the port's kDownstreamMessageAffordable condition.    *)
AffordableConditions(io) ==
  SelectSeq(io.conditions, LAMBDA c : c.type = "kDownstreamMessageAffordable")

(* The transmitter connect_broadcast_to_previous_op creates for one      *)
(* target port of op o.                                                  *)
broadcast_transmitter(os, o, prev_op, port_name, target_port) ==
  LET io == os[prev_op].outputs[port_name]
      prev_connector_type ==
        IF io.connector_type = "kDefault"
        THEN IF os[o].type = "kVirtual" THEN "kUCX" ELSE "kDoubleBuffer"
        ELSE io.connector_type
      prev_condition == AffordableConditions(io)
      has_term == prev_connector_type = "kDoubleBuffer" /\ prev_condition # <<>>
  IN [type |-> prev_connector_type, has_term |-> has_term,
      min_size |-> IF has_term THEN Head(prev_condition).min_size ELSE 0,
      target |-> <<o, target_port>>]

(* st = [conns, edges, bcast, entities, status]                          *)
RECURSIVE BroadcastTargetLoop(_, _, _, _, _, _)
BroadcastTargetLoop(st, os, o, prev_op, port_name, target_ports) ==
  IF target_ports = <<>> THEN st
  ELSE
    LET b == <<prev_op, port_name>>
        tx == broadcast_transmitter(os, o, prev_op, port_name, Head(target_ports))
        k == Len(st.bcast[b].tx) + 1
        next ==
          [st EXCEPT
             !.bcast[b].tx = Append(@, tx),
             !.conns = IF tx.type = "kDoubleBuffer"
                       THEN add_connection(@, Btx(prev_op, port_name, k),
                                           Port(o, Head(target_ports)))
                       ELSE @]
    IN BroadcastTargetLoop(next, os, o, prev_op, port_name, Tail(target_ports))

RECURSIVE BroadcastPortLoop(_, _, _, _, _)
BroadcastPortLoop(st, os, o, prev_op, port_names) ==
  IF port_names = <<>> THEN st
  ELSE
    LET port_name == Head(port_names)
        port_map_val == st.edges[<<prev_op, o>>]
        wired == BroadcastTargetLoop(st, os, o, prev_op, port_name,
                                     SortLabels(port_map_val[port_name]))
        next ==
          IF port_name \in DOMAIN port_map_val
          THEN [wired EXCEPT !.edges[<<prev_op, o>>] =
                  [l \in DOMAIN port_map_val \ {port_name} |-> port_map_val[l]]]
          ELSE st
    IN BroadcastPortLoop(next, os, o, prev_op, Tail(port_names))

(* A wiring that empties the port map of the edge.                       *)
connect_broadcast_to_previous_op_erasing_map(st, os, o, prev_op) ==
  [BroadcastPortLoop(st, os, o, prev_op,
                     SortLabels({b[2] : b \in {c \in DOMAIN st.bcast : c[1] = prev_op}}))
     EXCEPT !.edges[<<prev_op, o>>] = << >>]

connect_broadcast_to_previous_op(st, os, o, prev_op) ==
  BroadcastPortLoop(st, os, o, prev_op,
                    SortLabels({b[2] : b \in {c \in DOMAIN st.bcast : c[1] = prev_op}}))

(* connections: source port -> [connector_type, targets]; the targets    *)
(* are pairs <<next operator, target port>>.                             *)
RECURSIVE CreateBroadcastLoop(_, _, _, _, _)
CreateBroadcastLoop(st, os, o, connections, sources) ==
  IF sources = <<>> THEN st
  ELSE
    LET source_cname == Head(sources)
        curr_condition == AffordableConditions(os[o].outputs[source_cname])
        curr_min_size == IF curr_condition # <<>> THEN Head(curr_condition).min_size
                         ELSE kSizeOne
        entity == [min_size |-> curr_min_size, tx |-> <<>>]
        next ==
          IF Cardinality(connections[source_cname].targets) <= 1 THEN st
          ELSE [st EXCEPT
                  !.bcast = (<<o, source_cname>> :> entity) @@ @,
                  !.entities = Append(@, <<o, source_cname>>),
                  !.conns = add_connection(@, Port(o, source_cname),
                                           BroadcastRx(o, source_cname))]
    IN CreateBroadcastLoop(next, os, o, connections, Tail(sources))

create_broadcast_components(st, os, o, connections) ==
  CreateBroadcastLoop(st, os, o, connections, SortLabels(DOMAIN connections))

(* ------------------------------------------------------------------ *)
(* One iteration of the worklist loop of initialize_fragment            *)
(* ------------------------------------------------------------------ *)
(* A direct wiring that skips every UCX output, whatever its fan-out.    *)
connect_directly_any_fan_out(st1, os, o, prev_op) ==
  LET port_map_val == st1.edges[<<prev_op, o>>]
      outputs == os[prev_op].outputs
      pairs == UNION {{<<sp, tp>> : tp \in port_map_val[sp]} :
                        sp \in {l \in DOMAIN port_map_val :
                                  outputs[l].connector_type # "kUCX"}}
  IN IF os[prev_op].type = "kVirtual" \/ os[o].type = "kVirtual"
     THEN st1
     ELSE [st1 EXCEPT
             !.conns = IF os[prev_op].id # -1
                       THEN @ (+) SetToBag(
                              {<<Port(prev_op, pr[1]), Port(o, pr[2])>> :
                                 pr \in pairs})
                       ELSE @]

(* The direct connections from prev_op to o, for the port pairs the port *)
(* map still holds after the broadcast transmitters (st1).               *)
connect_directly(st1, os, o, prev_op) ==
  LET port_map_val == st1.edges[<<prev_op, o>>]
      outputs == os[prev_op].outputs
      pairs == UNION {{<<sp, tp>> : tp \in port_map_val[sp]} :
                        sp \in {l \in DOMAIN port_map_val :
                                  outputs[l].connector_type # "kUCX"}}
      ucx_fan_out == \E sp \in DOMAIN port_map_val :
                        /\ outputs[sp].connector_type = "kUCX"
                        /\ Cardinality(port_map_val[sp]) > 1
  IN IF os[prev_op].type = "kVirtual" \/ os[o].type = "kVirtual"
     THEN st1
     ELSE [st1 EXCEPT
             !.conns = IF os[prev_op].id # -1
                       THEN @ (+) SetToBag(
                              {<<Port(prev_op, pr[1]), Port(o, pr[2])>> :
                                 pr \in pairs})
                       ELSE @,
             !.status = IF ucx_fan_out THEN "ucx fan-out" ELSE @]

(* The loop over prev_operators: broadcast transmitters first, then the  *)
(* direct connections.                                                   *)
RECURSIVE ConnectPreviousLoop(_, _, _, _)
ConnectPreviousLoop(st, os, o, prev_operators) ==
  IF prev_operators = <<>> \/ st.status # "go" THEN st
  ELSE ConnectPreviousLoop(
         IF Head(prev_operators) = o THEN st
         ELSE connect_directly(
                IF HasBroadcast(st.bcast, Head(prev_operators))
                THEN connect_broadcast_to_previous_op(st, os, o,
                                                      Head(prev_operators))
                ELSE st,
                os, o, Head(prev_operators)),
         os, o, Tail(prev_operators))

(* The loop over get_next_nodes(op): nst = [connections, indegrees,      *)
(* worklist].                                                            *)
RECURSIVE NextLoop(_, _, _, _, _)
NextLoop(nst, os, es, o, next_operators) ==
  IF next_operators = <<>> THEN nst
  ELSE
    LET next_op == Head(next_operators)
        port_map == es[<<o, next_op>>]
        sources == {l \in DOMAIN port_map : port_map[l] # {}}
        old == nst.connections
        connections ==
          IF os[o].type = "kVirtual" THEN old
          ELSE [sp \in DOMAIN old \cup sources |->
                  [connector_type |-> os[o].outputs[sp].connector_type,
                   targets |->
                     (IF sp \in DOMAIN old THEN old[sp].targets ELSE {}) \cup
                     (IF sp \in sources
                      THEN {<<next_op, tp>> : tp \in port_map[sp]} ELSE {})]]
        indegree == nst.indegrees[next_op] - 1
    IN NextLoop([connections |-> connections,
                 indegrees |-> [nst.indegrees EXCEPT ![next_op] = indegree],
                 worklist |-> IF indegree = 0 THEN Append(nst.worklist, next_op)
                              ELSE nst.worklist],
                os, es, o, Tail(next_operators))

(* A visit that leaves the edges to initialized next operators unwired.  *)
downstream_connections_none(os, o, connections) == {}

(* The downstream connections to next operators that are initialized.    *)
downstream_connections(os, o, connections) ==
  UNION {{<<Port(o, sp), Port(t[1], t[2])>> :
            t \in {x \in connections[sp].targets : os[x[1]].id # -1}} :
           sp \in {l \in DOMAIN connections :
                     connections[l].connector_type # "kUCX"}}

(* Broadcasting decided for every operator.                              *)
target_op_always_broadcasts(os, connections, next_operators) == TRUE

target_op_has_ucx_connector(os, connections, next_operators) ==
  \/ \E sp \in DOMAIN connections : connections[sp].connector_type = "kUCX"
  \/ \E n \in SeqToSet(next_operators) : os[n].type = "kVirtual"

(* The broadcast transmitters to the next operators that are initialized.*)
RECURSIVE ConnectNextLoop(_, _, _, _)
ConnectNextLoop(st, os, o, next_operators) ==
  IF next_operators = <<>> THEN st
  ELSE
    LET next_op == Head(next_operators)
        next == IF /\ os[next_op].id # -1
                   /\ os[next_op].type # "kVirtual"
                   /\ HasBroadcast(st.bcast, o)
                THEN connect_broadcast_to_previous_op(st, os, next_op, o)
                ELSE st
    IN ConnectNextLoop(next, os, o, Tail(next_operators))

(* A refill that pushes the nodes in reverse insertion order.            *)
refill_reversed(ns, pl) ==
  IF pl.worklist # <<>> THEN pl
  ELSE [pl EXCEPT !.worklist =
                     LET sel == SelectSeq(ns, LAMBDA n : pl.indegrees[n] # 0)
                     IN [i \in DOMAIN sel |-> sel[Len(sel) + 1 - i]],
                  !.indegrees = [n \in DOMAIN @ |-> 0],
                  !.refills = @ + 1]

(* A refill that breaks one cycle at a time: only the first node whose   *)
(* indegree is not zero is pushed.                                       *)
refill_first_only(ns, pl) ==
  IF pl.worklist # <<>> THEN pl
  ELSE LET sel == SelectSeq(ns, LAMBDA n : pl.indegrees[n] # 0)
       IN [pl EXCEPT !.worklist = <<Head(sel)>>,
                     !.indegrees[Head(sel)] = 0,
                     !.refills = @ + 1]

(* The refill of an empty worklist: every node whose indegree is not     *)
(* zero gets the indegree zero and is pushed; refills counts the times   *)
(* the loop came here.                                                   *)
refill(ns, pl) ==
  IF pl.worklist # <<>> THEN pl
  ELSE [pl EXCEPT !.worklist = SelectSeq(ns, LAMBDA n : pl.indegrees[n] # 0),
                  !.indegrees = [n \in DOMAIN @ |-> 0],
                  !.refills = @ + 1]

(* The second half of the iteration: downstream connections and         *)
(* broadcast entities, given the outcome nst of the loop over the next   *)
(* operators.                                                            *)
wire_downstream(st1, nst, os, pl, o, next_operators) ==
  [st |->
     IF target_op_has_ucx_connector(os, nst.connections, next_operators)
     THEN IF os[o].type # "kVirtual"
          THEN ConnectNextLoop(
                 create_broadcast_components(
                   [st1 EXCEPT !.conns = @ (+) SetToBag(
                      downstream_connections(os, o, nst.connections))],
                   os, o, nst.connections),
                 os, o, next_operators)
          ELSE create_broadcast_components(st1, os, o, nst.connections)
     ELSE [st1 EXCEPT !.conns = @ (+) SetToBag(
             downstream_connections(os, o, nst.connections))],
   plan |-> [pl EXCEPT !.indegrees = nst.indegrees, !.worklist = nst.worklist]]

(* The iteration from the loop over the next operators on, given the     *)
(* outcome st1 of the loop over the previous ones.                       *)
wire_next(st1, os, pl, o, next_operators) ==
  IF st1.status # "go" THEN [st |-> st1, plan |-> pl]
  ELSE wire_downstream(st1,
         NextLoop([connections |-> [l \in {} |-> 0],
                   indegrees |-> pl.indegrees, worklist |-> pl.worklist],
                  os, st1.edges, o, next_operators),
         os, pl, o, next_operators)

(* The wiring of the visited operator o, once it is initialized (os).    *)
wire_operator(os, ns, es, pl, bc, ents, cs, o) ==
  wire_next(ConnectPreviousLoop(
              [conns |-> cs, edges |-> es, bcast |-> bc, entities |-> ents,
               status |-> "go"],
              os, o, get_previous_nodes(ns, es, o)),
            os, pl, o, get_next_nodes(ns, es, o))

(* ------------------------------------------------------------------ *)
(* Lowering of the connection items (edges that leave the fragment)     *)
(* ------------------------------------------------------------------ *)
ConnectionItem(o, port_name, io_type) ==
  [op |-> o, port |-> port_name, io_type |-> io_type]

VirtualTransmitterOp(port_name) ==
  Operator("kVirtual", (port_name :> IOSpec(kSizeOne, "kDefault")), NoPorts, {})

VirtualReceiverOp(port_name) ==
  Operator("kVirtual", NoPorts, (port_name :> IOSpec(kSizeOne, "kDefault")), {})

(* ForwardOp, its input "in" given the connector of the virtual receiver *)
ForwardOp ==
  Operator("kNative",
           (P("in") :> set_connector(IOSpec(kSizeOne, "kDefault"), "kUCX",
                                     "UcxReceiver")),
           (P("out") :> IOSpec(kSizeOne, "kDefault")), {})

(* connection_index: the position of the item among the items of the     *)
(* same operator and port.                                               *)
connection_index(items, i) ==
  Cardinality({j \in 1..(i - 1) : items[j].op = items[i].op
                                    /\ items[j].port = items[i].port})

(* add_flow as the lowering calls it, once per flow of the sequence:     *)
(* the outcome is ignored but for what it did to the fragment.           *)
(* g = [ops, nodes, edges]; a flow is <<u, d, port_pairs>>.              *)
GraphOf(r) == [ops |-> r.ops, nodes |-> r.nodes, edges |-> r.edges]

RECURSIVE lowering_add_flow(_, _)
lowering_add_flow(g, flows) ==
  IF flows = <<>> THEN g
  ELSE
    LET f == Head(flows)
    IN lowering_add_flow(
         GraphOf(CHOOSE x \in add_flow(g.ops, g.nodes, g.edges, f[1], f[2], f[3]) :
                   TRUE),
         Tail(flows))

RECURSIVE create_virtual_operators_and_connections(_, _, _)
create_virtual_operators_and_connections(g, items, i) ==
  IF i > Len(items) THEN g
  ELSE
    LET o == items[i].op
        port_name == items[i].port
        k == connection_index(items, i)
        op_spec_inputs == g.ops[o].inputs
        param_index ==
          IF port_name \notin DOMAIN op_spec_inputs
             \/ op_spec_inputs[port_name].queue_size = kAnySize
          THEN g.ops[o].params[port_name] ELSE -1
        vtx == VirtualTx(o, port_name, k)
        vrx == VirtualRx(o, port_name, k)
        fwd == ForwardOf(o, port_name, param_index)
        is_output == items[i].io_type = "kOutput"
        virtual_ops ==
          IF is_output THEN (vtx :> VirtualTransmitterOp(port_name))
          ELSE (vrx :> VirtualReceiverOp(port_name)) @@ (fwd :> ForwardOp)
        flows ==
          IF is_output THEN << <<o, vtx, {<<port_name, port_name>>}>> >>
          ELSE << <<vrx, fwd, {<<port_name, P("in")>>}>>,
                  <<fwd, o, {<<P("out"), port_name>>}>> >>
    IN create_virtual_operators_and_connections(
         lowering_add_flow([g EXCEPT !.ops = virtual_ops @@ @], flows),
         items, i + 1)

(* A count that takes every port for connected once.                    *)
ucx_connection_count_one(g, last_transmitter_op, port_name) == 1

(* connection_count of connect_ucx_transmitters_to_virtual_ops           *)
ucx_connection_count(g, last_transmitter_op, port_name) ==
  Cardinality({n \in SeqToSet(get_next_nodes(g.nodes, g.edges, last_transmitter_op)) :
                 port_name \in DOMAIN g.edges[<<last_transmitter_op, n>>]})

RECURSIVE connect_ucx_transmitters_to_virtual_ops(_, _, _)
connect_ucx_transmitters_to_virtual_ops(g, items, i) ==
  IF i > Len(items) THEN g
  ELSE
    LET o == items[i].op
        port_name == items[i].port
        next ==
          IF items[i].io_type = "kOutput"
             /\ ucx_connection_count(g, o, port_name) = 1
          THEN [g EXCEPT !.ops[o].outputs[port_name] =
                           set_connector(@, "kUCX", "UcxTransmitter")]
          ELSE g
    IN connect_ucx_transmitters_to_virtual_ops(next, items, i + 1)

(* A lowering that creates no virtual operator.                          *)
lower_without_virtual_operators(os, ns, es, items) ==
  [ops |-> os, nodes |-> ns, edges |-> es]

(* The graph initialize_fragment works on.                               *)
lower(os, ns, es, items) ==
  connect_ucx_transmitters_to_virtual_ops(
    create_virtual_operators_and_connections(
      [ops |-> os, nodes |-> ns, edges |-> es], items, 1),
    items, 1)

(* A worklist that starts from every node, whatever its indegree.       *)
initial_plan_every_node(ns, es) ==
  [worklist |-> ns,
   indegrees |-> [n \in SeqToSet(ns) |-> Len(get_previous_nodes(ns, es, n))],
   visited |-> {}, edges0 |-> es, refills |-> 0]

(* The indegrees and the root worklist.                                  *)
initial_plan(ns, es) ==
  LET indegrees == [n \in SeqToSet(ns) |-> Len(get_previous_nodes(ns, es, n))]
  IN [worklist |-> SelectSeq(ns, LAMBDA n : indegrees[n] = 0),
      indegrees |-> indegrees, visited |-> {}, edges0 |-> es, refills |-> 0]

(* ------------------------------------------------------------------ *)
(* State                                                                *)
(* ------------------------------------------------------------------ *)
VARIABLES
  decl,      \* the operators compose() declares (fixed for a behaviour)
  program,   \* the calls compose() replays in every pass (none: free calls)
  ops,       \* the fragment's operators: identity -> Operator record
  nodes,     \* graph_: the nodes in insertion order
  edges,     \* graph_: <<u, v>> -> port map of the edge
  frag,      \* Fragment: is_run_called_, is_composed_, network context, counters
  exec,      \* GXFExecutor flags, context, connection items, broadcast entities
  conns,     \* the Connection components of connections_entity_ (a bag)
  bcast,     \* broadcast_entities: <<op, port>> -> entity
  plan,      \* initialize_fragment's worklist, indegrees, visited set
  pc,        \* where the caller is: compose, composed, planning, done, failed
  log,       \* what was observed: last error, initialization order, outcome
  groups,    \* the entity groups of the GXF context and their GPU devices
  threads    \* the threads that run a fragment each, and gxf_execution_mutex

vars == <<decl, program, ops, nodes, edges, frag, exec, conns, bcast, plan, pc,
          log, groups, threads>>

(* Declarations compose() can make.                                      *)
DeclControl ==
  [o \in UserOps |-> CASE o = U(2) -> WithPolicy(Bare("kNative"), "kReject")
                       [] o = U(3) -> WithPolicy(Bare("kNative"), "kRaise")
                       [] OTHER -> Bare("kNative")]
DeclKinds ==
  [o \in UserOps |-> CASE o = U(1) -> Bare("kNative")
                       [] o = U(2) -> Bare("kGXF")
                       [] OTHER -> Src]
DeclData ==
  [o \in UserOps |-> CASE o = U(1) -> Src2
                       [] o = U(2) -> Mid(FixedQueueSize)
                       [] OTHER -> Mid(kPrecedingCount)]
DeclMulti ==
  [o \in UserOps |-> CASE o = U(1) -> Src
                       [] o = U(2) -> Multi
                       [] OTHER -> Sink2]
DeclConditions ==
  [o \in UserOps |-> CASE o = U(1) -> SrcConditions
                       [] o = U(2) -> SinkMultiMessage
                       [] OTHER -> SinkConditions]
DeclInvalid ==
  [o \in UserOps |-> CASE o = U(1) -> Src
                       [] o = U(2) -> Mid(InvalidQueueSize)
                       [] OTHER -> Mid(kSizeOne)]
DeclUcx ==
  [o \in UserOps |-> CASE o = U(1) -> MidUcx
                       [] o = U(2) -> Join
                       [] OTHER -> Src]
Decls ==
  {DeclControl, DeclKinds, DeclData, DeclMulti, DeclConditions, DeclInvalid,
   DeclUcx}

(* The port pairs a caller can pass for the edge u -> d.                 *)
PortPairChoices(u, d) ==
  {{}} \cup
  {{<<o, i>>} : o \in DOMAIN decl[u].outputs \cup {P("bogus")},
                i \in DOMAIN decl[d].inputs}
  \cup
  {{<<o, i>>, <<o, P("unknown")>>} : o \in DOMAIN decl[u].outputs,
                                     i \in DOMAIN decl[d].params}

(* The operators whose output "out" can leave the fragment.              *)
ItemSources == {U(1), U(2)}

(* The connection items the application driver can hand over: the output *)
(* "out" of one of the first operators, an input of the second one.      *)
ItemCandidates ==
  {ConnectionItem(o, P("out"), "kOutput") :
     o \in {x \in ItemSources \cap SeqToSet(nodes) :
              P("out") \in DOMAIN decl[x].outputs}}
  \cup
  {ConnectionItem(U(2), l, "kInput") :
     l \in {x \in DOMAIN decl[U(2)].inputs : U(2) \in SeqToSet(nodes)}}

ItemChoices ==
  {s \in UNION {[1..n -> ItemCandidates] : n \in 1..MaxItems} :
     \A i \in DOMAIN s, j \in DOMAIN s : i # j => s[i] # s[j]}

(* A GXF context without entities, and threads that did not start.      *)
NoGroups ==
  [of |-> [n \in {} |-> <<"", 0>>], devices |-> [n \in {} |-> <<>>],
   network |-> {}, network_devices |-> <<>>, generated |-> <<>>]

NumThreads == 3     \* threads that run a fragment each
Threads == 1..NumThreads
NoThreads == [at |-> [t \in Threads |-> "idle"], mutex |-> 0]

NoPlan ==
  [worklist |-> <<>>, indegrees |-> [o \in {} |-> 0], visited |-> {},
   edges0 |-> NoEdges, refills |-> 0]

NoBroadcast == [b \in {} |-> [min_size |-> 0, tx |-> <<>>]]

(* What a pass produced: nodes, connections, broadcast entities and the  *)
(* connector of every port.                                              *)
Connectors(os, ns) ==
  [o \in SeqToSet(ns) |->
     [inputs |-> [l \in DOMAIN os[o].inputs |-> os[o].inputs[l].connector],
      outputs |-> [l \in DOMAIN os[o].outputs |-> os[o].outputs[l].connector]]]

PlanOf(os, ns, cs, bc, ents) ==
  [taken |-> TRUE, nodes |-> SeqToSet(ns), conns |-> cs, bcast |-> bc,
   entities |-> ents, connectors |-> Connectors(os, ns)]

NoPlanYet ==
  [taken |-> FALSE, nodes |-> {}, conns |-> EmptyBag, bcast |-> NoBroadcast,
   entities |-> <<>>, connectors |-> Connectors(<<>>, <<>>)]

NoLog ==
  [error |-> "", init_order |-> <<>>, outcome |-> "", first |-> NoPlanYet,
   passes |-> 0, thrown |-> <<>>]

NoProgram == [calls |-> <<>>, items |-> <<>>]

InitFragment ==
  [is_run_called |-> FALSE, is_composed |-> FALSE, network_context |-> FALSE,
   calls |-> 0, step |-> 0, runs |-> 0, thread_pools |-> <<>>,
   scheduler |-> "null", data_flow_tracker |-> FALSE]

(* Fragment::scheduler(): the scheduler of the fragment, a GreedyScheduler *)
(* made now if the fragment has none.                                    *)
scheduler(fr) ==
  [fr EXCEPT !.scheduler = IF @ = "null" THEN "GreedyScheduler" ELSE @]

(* GXFExecutor(fragment, create_gxf_context = true)                      *)
InitExec ==
  [is_gxf_graph_initialized |-> FALSE, is_gxf_graph_activated |-> FALSE,
   is_run_called |-> FALSE, owns_context |-> TRUE, context |-> 1,
   connection_items |-> <<>>, implicit_broadcast_entities |-> <<>>]

InitCommon ==
  /\ decl \in Decls
  /\ ops = decl
  /\ nodes = <<>>
  /\ edges = NoEdges
  /\ frag = InitFragment
  /\ exec = InitExec
  /\ conns = EmptyBag
  /\ bcast = NoBroadcast
  /\ plan = NoPlan
  /\ pc = "compose"
  /\ log = NoLog
  /\ groups = NoGroups
  /\ threads = NoThreads

Init == InitCommon /\ program = NoProgram

(* ------------------------------------------------------------------ *)
(* Composition: the calls compose() makes                               *)
(* ------------------------------------------------------------------ *)
(* Fragment::add_operator                                                *)
AddOperator(o) ==
  /\ pc = "compose"
  /\ Len(nodes) < MaxAdds
  /\ o \notin SeqToSet(nodes)
  /\ nodes' = add_node(nodes, o)
  /\ log' = [log EXCEPT !.error = ""]
  /\ UNCHANGED <<groups, threads, decl, program, ops, edges, frag, exec, conns,
                 bcast, plan, pc>>

(* Fragment::add_flow(u, d, port_pairs)                                  *)
AddFlow(u, d, port_pairs) ==
  /\ pc = "compose"
  /\ frag.calls < MaxFlows
  /\ \E r \in add_flow(ops, nodes, edges, u, d, port_pairs) :
       /\ ops' = r.ops
       /\ nodes' = r.nodes
       /\ edges' = r.edges
       /\ log' = [log EXCEPT !.error = r.error]
       /\ frag' = [frag EXCEPT !.calls = IF r.ok \/ r.ops # ops THEN @ + 1 ELSE @]
  /\ UNCHANGED <<groups, threads, decl, program, exec, conns, bcast, plan, pc>>

(* compose_graph() returns: is_composed_ = true                          *)
ComposeDone ==
  /\ pc = "compose"
  /\ frag.step = Len(program.calls)
  /\ frag' = [frag EXCEPT !.is_composed = TRUE]
  /\ pc' = "composed"
  /\ UNCHANGED <<groups, threads, decl, program, ops, nodes, edges, exec, conns,
                 bcast, plan, log>>

(* GXFExecutor::connection_items(items), called by the application       *)
(* driver, which also gives the fragment its network context.            *)
connection_items(ex, items) == [ex EXCEPT !.connection_items = items]

SetConnectionItems(items) ==
  /\ pc = "composed"
  /\ exec.connection_items = <<>>
  /\ ~exec.is_gxf_graph_initialized
  /\ exec' = connection_items(exec, items)
  /\ frag' = [frag EXCEPT !.network_context = TRUE]
  /\ UNCHANGED <<groups, threads, decl, program, ops, nodes, edges, conns, bcast,
                 plan, pc, log>>


(* ------------------------------------------------------------------ *)
(* Running: Fragment::run -> GXFExecutor::run                           *)
(* ------------------------------------------------------------------ *)
(* run_gxf_graph() and the return to Fragment::run                       *)
run_gxf_graph(ex) ==
  [ex EXCEPT !.is_gxf_graph_activated = FALSE, !.is_run_called = TRUE]

Returned(fr) == [fr EXCEPT !.is_run_called = TRUE, !.runs = @ + 1]

(* An exception that is_run_called_ is set in spite of.                  *)
Thrown_run_called(fr) == [fr EXCEPT !.is_run_called = TRUE, !.runs = @ + 1]

Thrown(fr) == [fr EXCEPT !.runs = @ + 1]

(* The driver has connection items it did not hand over yet.             *)
ItemsPending ==
  /\ program.items # <<>>
  /\ \A i \in DOMAIN program.items : program.items[i].op \in SeqToSet(nodes)
  /\ exec.connection_items = <<>>
  /\ ~exec.is_gxf_graph_initialized

(* executor().run(graph()): initialize_gxf_graph up to the worklist loop *)
(* of initialize_fragment; a graph that is empty, or an executor that    *)
(* holds an initialized graph, goes straight to run_gxf_graph.           *)
ExecutorRun ==
  /\ pc = "composed"
  /\ ~ItemsPending
  /\ IF exec.is_gxf_graph_initialized \/ nodes = <<>>
     THEN /\ exec' = run_gxf_graph([exec EXCEPT !.is_gxf_graph_initialized = TRUE])
          /\ frag' = Returned(scheduler(frag))
          /\ pc' = "done"
          /\ log' = [log EXCEPT !.outcome = "ran"]
          /\ UNCHANGED <<ops, nodes, edges, conns, bcast, plan>>
     ELSE \E g \in {lower(ops, nodes, edges, exec.connection_items)} :
             /\ exec' = [exec EXCEPT !.is_gxf_graph_initialized = TRUE]
             /\ ops' = g.ops
             /\ nodes' = g.nodes
             /\ edges' = g.edges
             /\ conns' = EmptyBag
             /\ bcast' = NoBroadcast
             /\ plan' = initial_plan(g.nodes, g.edges)
             /\ pc' = "planning"
             /\ log' = [log EXCEPT !.init_order = <<>>, !.outcome = "",
                                   !.thrown = <<>>]
             /\ frag' = scheduler(frag)
  /\ UNCHANGED <<groups, threads, decl, program>>

AllVisited == plan.visited = SeqToSet(nodes)

(* The operators after the mitigation block and op->initialize().       *)
initialized(os, o, init) ==
  [ok |-> init.ok, ops |-> [os EXCEPT ![o] = init.op], thrown |-> init.thrown]

visit_operator(os, ns, es, o, visited_nodes) ==
  {initialized(os, o, init) :
     init \in initialize_operator(
       [os EXCEPT ![o] = cycle_mitigation(@, o, get_previous_nodes(ns, es, o),
                                          visited_nodes)],
       ns, es, o)}

(* One iteration of the worklist loop.                                   *)
VisitOp ==
  /\ pc = "planning"
  /\ ~(plan.worklist = <<>> /\ AllVisited)
  /\ \E filled \in {refill(nodes, plan)} :
     \E o \in {Head(filled.worklist)} :
     \E popped \in {[filled EXCEPT !.worklist = Tail(@), !.visited = @ \cup {o}]} :
       IF o \in plan.visited
       THEN /\ plan' = popped
            /\ UNCHANGED <<ops, edges, frag, exec, conns, bcast, pc, log>>
       ELSE
         \E init \in visit_operator(ops, nodes, edges, o, popped.visited) :
           IF \/ mitigation_derefs_null(ops[o], o, get_previous_nodes(nodes, edges, o))
              \/ ~init.ok
           THEN /\ plan' = popped
                /\ ops' = init.ops
                /\ frag' = Thrown(frag)
                /\ pc' = "failed"
                /\ log' = [log EXCEPT !.outcome = "threw",
                                      !.thrown =
                                        IF init.ok \/ mitigation_derefs_null(
                                             ops[o], o,
                                             get_previous_nodes(nodes, edges, o))
                                        THEN <<>>
                                        ELSE <<o, init.thrown>>]
                /\ UNCHANGED <<edges, exec, conns, bcast>>
           ELSE
             \E wired \in {wire_operator(init.ops, nodes, edges, popped, bcast,
                                         exec.implicit_broadcast_entities,
                                         conns, o)} :
               /\ plan' = wired.plan
               /\ ops' = init.ops
               /\ edges' = wired.st.edges
               /\ conns' = wired.st.conns
               /\ bcast' = wired.st.bcast
               /\ exec' = [exec EXCEPT
                             !.implicit_broadcast_entities = wired.st.entities]
               /\ IF wired.st.status = "go"
                  THEN /\ log' = [log EXCEPT !.init_order = Append(@, o)]
                       /\ UNCHANGED <<frag, pc>>
                  ELSE /\ log' = [log EXCEPT !.init_order = Append(@, o),
                                             !.outcome = "init_failed"]
                       /\ frag' = Returned(frag)
                       /\ pc' = "done"
  /\ UNCHANGED <<groups, threads, decl, program, nodes>>

has_ucx_connector(os, ns, bc) ==
  \/ \E o \in SeqToSet(ns) :
       \/ \E l \in DOMAIN os[o].inputs : os[o].inputs[l].connector_type = "kUCX"
       \/ \E l \in DOMAIN os[o].outputs : os[o].outputs[l].connector_type = "kUCX"
  \/ \E b \in DOMAIN bc : \E k \in DOMAIN bc[b].tx : bc[b].tx[k].type = "kUCX"

(* ------------------------------------------------------------------ *)
(* Entity groups and GPU devices                                        *)
(* ------------------------------------------------------------------ *)
DefaultEntityGroup == <<"default_entity_group", 0>>
PoolEntityGroup(i) == <<"pool", i>>

(* Device names: the GPUDevice of a resource the user gave an operator,  *)
(* and "gpu_device_entity" followed by the count (no count: -1).         *)
UserDevice(dev_id) == <<"user_device", dev_id>>
GpuDeviceEntity(count) == <<"gpu_device_entity", count>>

(* The groups once every operator has its graph entity: each entity in   *)
(* the default group, with the GPUDevice of the operator's resources.    *)
entity_groups(os, ns) ==
  [of |-> [n \in SeqToSet(ns) |-> DefaultEntityGroup],
   devices |-> [n \in SeqToSet(ns) |->
                  IF os[n].dev_id = kNoDevice THEN <<>>
                  ELSE <<UserDevice(os[n].dev_id)>>],
   network |-> {}, network_devices |-> <<>>, generated |-> <<>>]

Members(gr, g) == {n \in DOMAIN gr.of : gr.of[n] = g}

GroupDevices(gr, g) ==
  UNION {SeqToSet(gr.devices[n]) : n \in Members(gr, g)}

gxf_entity_group_name(gr, o) == gr.of[o]

(* The id of a GPUDevice of the entity, or else of its entity group, or  *)
(* the empty sequence (std::nullopt).                                    *)
gxf_device_id(gr, o) ==
  IF gr.devices[o] # <<>> THEN <<gr.devices[o][1][2]>>
  ELSE IF GroupDevices(gr, gr.of[o]) # {}
       THEN <<CHOOSE i \in {d[2] : d \in GroupDevices(gr, gr.of[o])} :
                \A d \in GroupDevices(gr, gr.of[o]) : i <= d[2]>>
       ELSE <<>>

(* The thread pools: each operator of a pool moves to the pool's entity  *)
(* group; st = [ok, groups].                                             *)
RECURSIVE PoolOperatorLoop(_, _, _, _)
PoolOperatorLoop(st, pool_name, operators, gpu_device) ==
  IF operators = <<>> \/ ~st.ok THEN st
  ELSE
    LET op == Head(operators)
        added == [st.groups EXCEPT !.of[op] = pool_name]
        current_dev_id == gxf_device_id(added, op)
    IN IF current_dev_id = <<>>
       THEN PoolOperatorLoop([ok |-> TRUE, groups |-> added], pool_name,
                             Tail(operators), gpu_device)
       ELSE IF gpu_device = kNoDevice
       THEN PoolOperatorLoop([ok |-> TRUE, groups |-> added], pool_name,
                             Tail(operators), current_dev_id[1])
       ELSE IF gpu_device # current_dev_id[1]
       THEN [ok |-> FALSE, groups |-> added]
       ELSE PoolOperatorLoop([ok |-> TRUE, groups |-> added], pool_name,
                             Tail(operators), gpu_device)

RECURSIVE ThreadPoolLoop(_, _)
ThreadPoolLoop(st, pools) ==
  IF pools = <<>> \/ ~st.ok THEN st
  ELSE ThreadPoolLoop(
         PoolOperatorLoop(st, Head(pools).name, Head(pools).operators, kNoDevice),
         Tail(pools))

configure_thread_pools(gr, pools) ==
  ThreadPoolLoop([ok |-> TRUE, groups |-> gr], pools)

op_has_ucx_connector(op) ==
  \/ \E l \in DOMAIN op.inputs : op.inputs[l].connector_type = "kUCX"
  \/ \E l \in DOMAIN op.outputs : op.outputs[l].connector_type = "kUCX"

add_gpu_device_to_graph_entity(gr, device_name, node) ==
  [gr EXCEPT !.devices[node] = Append(@, device_name),
             !.generated = Append(@, device_name)]

(* A pass that gives every operator with a UCX connector its own device. *)
GpuDeviceChoice_every_operator(st, os, node) ==
  IF os[node].type = "kVirtual" \/ ~op_has_ucx_connector(os[node]) THEN st
  ELSE [st EXCEPT
          !.groups = add_gpu_device_to_graph_entity(
                       @, GpuDeviceEntity(st.generated_device_entity_count), node),
          !.generated_device_entity_count = @ + 1]

(* One iteration of the loop over the nodes: st = [groups,               *)
(* groups_with_device, generated_device_entity_count].                   *)
GpuDeviceChoice(st, os, node) ==
  LET entity_group_name == gxf_entity_group_name(st.groups, node)
      maybe_device_id == gxf_device_id(st.groups, node)
      device_name == GpuDeviceEntity(st.generated_device_entity_count)
  IN IF os[node].type = "kVirtual" \/ ~op_has_ucx_connector(os[node]) THEN st
     ELSE IF entity_group_name \in st.groups_with_device THEN st
     ELSE IF maybe_device_id # <<>>
     THEN [st EXCEPT !.groups_with_device = @ \cup {entity_group_name}]
     ELSE [st EXCEPT
             !.groups = add_gpu_device_to_graph_entity(@, device_name, node),
             !.generated_device_entity_count = @ + 1,
             !.groups_with_device = @ \cup {entity_group_name}]

RECURSIVE GpuDeviceLoop(_, _, _)
GpuDeviceLoop(st, os, ns) ==
  IF ns = <<>> THEN st
  ELSE GpuDeviceLoop(GpuDeviceChoice(st, os, Head(ns)), os, Tail(ns))

(* The network context branch: the device of the network entity group,   *)
(* the devices of the operators, the broadcast entities with a UCX       *)
(* transmitter.                                                          *)
add_gpu_devices(gr, os, ns, bc) ==
  [GpuDeviceLoop([groups |-> [gr EXCEPT !.network_devices =
                                           <<GpuDeviceEntity(kNoDevice)>>],
                  groups_with_device |-> {},
                  generated_device_entity_count |-> 0],
                 os, ns).groups
     EXCEPT !.network = {b \in DOMAIN bc :
                           \E k \in DOMAIN bc[b].tx : bc[b].tx[k].type = "kUCX"}]

(* The loop ends: the rest of initialize_fragment and of                 *)
(* initialize_gxf_graph, then run_gxf_graph.                             *)
PlanDone ==
  /\ pc = "planning"
  /\ plan.worklist = <<>>
  /\ AllVisited
  /\ \E pooled \in {configure_thread_pools(entity_groups(ops, nodes),
                                            frag.thread_pools)} :
     IF \/ ~pooled.ok
        \/ ~frag.network_context /\ has_ucx_connector(ops, nodes, bcast)
     THEN /\ groups' = pooled.groups
          /\ frag' = Thrown(frag)
          /\ pc' = "failed"
          /\ log' = [log EXCEPT !.outcome = "threw"]
          /\ UNCHANGED exec
     ELSE /\ groups' = IF frag.network_context
                       THEN add_gpu_devices(pooled.groups, ops, nodes, bcast)
                       ELSE pooled.groups
          /\ exec' = run_gxf_graph(exec)
          /\ frag' = Returned(frag)
          /\ pc' = "done"
          /\ log' = [log EXCEPT
                       !.outcome = "ran",
                       !.passes = @ + 1,
                       !.first = IF @.taken THEN @
                                 ELSE PlanOf(ops, nodes, conns, bcast,
                                             exec.implicit_broadcast_entities)]
  /\ UNCHANGED <<threads, decl, program, ops, nodes, edges, conns, bcast, plan>>

Next ==
  \/ \E o \in UserOps : AddOperator(o)
  \/ \E u \in UserOps, d \in UserOps :
       \E pp \in PortPairChoices(u, d) : AddFlow(u, d, pp)
  \/ ComposeDone
  \/ \E items \in ItemChoices : SetConnectionItems(items)
  \/ ExecutorRun
  \/ VisitOp
  \/ PlanDone

Spec == Init /\ [][Next]_vars

(* ------------------------------------------------------------------ *)
(* Repeated runs of one fragment                                        *)
(* ------------------------------------------------------------------ *)
(* A reset that keeps the list of implicit broadcast entities.           *)
reset_execution_state_keeping_broadcasts(ex) ==
  IF ~ex.owns_context THEN ex
  ELSE [ex EXCEPT !.is_gxf_graph_initialized = FALSE,
                  !.is_gxf_graph_activated = FALSE,
                  !.connection_items = <<>>,
                  !.context = IF ex.is_run_called \/ @ = 0 THEN @ + 1 ELSE @]

(* A reset that keeps the context whatever ran before.                   *)
reset_execution_state_reusing_context(ex) ==
  IF ~ex.owns_context THEN ex
  ELSE [ex EXCEPT !.is_gxf_graph_initialized = FALSE,
                  !.is_gxf_graph_activated = FALSE,
                  !.connection_items = <<>>,
                  !.implicit_broadcast_entities = <<>>]

(* GXFExecutor::reset_execution_state: a context is created anew (a new  *)
(* number) if run was invoked or there is none (0).                      *)
reset_execution_state(ex) ==
  IF ~ex.owns_context THEN ex
  ELSE [ex EXCEPT !.is_gxf_graph_initialized = FALSE,
                  !.is_gxf_graph_activated = FALSE,
                  !.connection_items = <<>>,
                  !.implicit_broadcast_entities = <<>>,
                  !.context = IF ex.is_run_called \/ @ = 0 THEN @ + 1 ELSE @]

(* A reset that also lets go of the scheduler, the network context and   *)
(* the data flow tracker.                                                *)
reset_state_resetting_members(fr) ==
  [fr EXCEPT !.is_composed = FALSE, !.calls = 0, !.step = 0,
             !.thread_pools = <<>>, !.scheduler = "null",
             !.network_context = FALSE, !.data_flow_tracker = FALSE]

(* Fragment::reset_state on the fragment's own fields, after its first   *)
(* test: reset_graph_entities() asks for the scheduler, the thread pools *)
(* are cleared, is_composed_ is set to false.                            *)
reset_state(fr) ==
  [scheduler(fr) EXCEPT !.is_composed = FALSE, !.calls = 0, !.step = 0,
                        !.thread_pools = <<>>]

(* The next run() of the fragment begins: reset_state(), then the graph  *)
(* is composed again (compose_graph() skips a fragment that is still     *)
(* composed); compose() declares its operators anew.                     *)
ResetState ==
  /\ pc \in {"done", "failed"}
  /\ frag.runs < MaxRuns
  /\ IF ~frag.is_run_called
     THEN /\ pc' = IF frag.is_composed THEN "composed" ELSE "compose"
          /\ UNCHANGED <<ops, nodes, edges, frag, exec, conns>>
     ELSE /\ exec' = reset_execution_state(exec)
          /\ conns' = IF exec.owns_context THEN EmptyBag ELSE conns
          /\ nodes' = <<>>
          /\ edges' = NoEdges
          /\ frag' = reset_state(frag)
          /\ ops' = decl
          /\ pc' = "compose"
  /\ UNCHANGED <<groups, threads, decl, program, bcast, plan, log>>

(* The calls a replayed compose() is made of.                            *)
ReplayPairs == {<<1, 2>>, <<1, 3>>, <<2, 3>>, <<3, 2>>, <<2, 2>>}

ReplayCalls(d) ==
  UNION {{<<U(pr[1]), U(pr[2]), pp>> :
            pp \in {{}} \cup
                   {{<<o, i>>} : o \in DOMAIN d[U(pr[1])].outputs,
                                 i \in DOMAIN d[U(pr[2])].inputs}} :
           pr \in ReplayPairs}

ReplayItems(d) ==
  {<<>>} \cup
  {<<ConnectionItem(o, P("out"), "kOutput")>> :
     o \in {x \in ItemSources : P("out") \in DOMAIN d[x].outputs}} \cup
  {<<ConnectionItem(U(2), l, "kInput")>> : l \in DOMAIN d[U(2)].inputs}

Programs(d) ==
  {[calls |-> c, items |-> i] :
     c \in UNION {[1..n -> ReplayCalls(d)] : n \in 1..MaxProgram},
     i \in ReplayItems(d)}

(* The connection items of the program that name operators of the graph. *)
ProgramItems ==
  IF \A i \in DOMAIN program.items : program.items[i].op \in SeqToSet(nodes)
  THEN program.items ELSE <<>>

(* The next add_flow call of the replayed compose().                     *)
ReplayFlow ==
  /\ pc = "compose"
  /\ frag.step < Len(program.calls)
  /\ \E c \in {program.calls[frag.step + 1]} :
     \E r \in add_flow(ops, nodes, edges, c[1], c[2], c[3]) :
       /\ ops' = r.ops
       /\ nodes' = r.nodes
       /\ edges' = r.edges
       /\ log' = [log EXCEPT !.error = r.error]
  /\ frag' = [frag EXCEPT !.step = @ + 1]
  /\ UNCHANGED <<groups, threads, decl, program, exec, conns, bcast, plan, pc>>

(* The driver hands the program's connection items to the executor.      *)
ReplayConnectionItems ==
  /\ ProgramItems # <<>>
  /\ SetConnectionItems(ProgramItems)

InitRerun == InitCommon /\ program \in Programs(decl)

NextRerun ==
  \/ ReplayFlow
  \/ ComposeDone
  \/ ReplayConnectionItems
  \/ ExecutorRun
  \/ VisitOp
  \/ PlanDone
  \/ ResetState

SpecRerun == InitRerun /\ [][NextRerun]_vars

(* ------------------------------------------------------------------ *)
(* Properties                                                           *)
(* ------------------------------------------------------------------ *)
(* The nodes an edge relation E leads to from the nodes of frontier.     *)
RECURSIVE ReachableFrom(_, _, _)
ReachableFrom(E, frontier, seen) ==
  LET next == {e[2] : e \in {x \in E : x[1] \in frontier}} \ seen
  IN IF next = {} THEN seen ELSE ReachableFrom(E, next, seen \cup next)

(* The edge e of E lies on a cycle of E.                                 *)
OnCycle(E, e) == e[1] \in ReachableFrom(E, {e[2]}, {e[2]})

Acyclic(E) == \A e \in E : ~OnCycle(E, e)

(* The edges of the graph the worklist loop was started on.              *)
PlannedEdges == DOMAIN plan.edges0

Initialized == SeqToSet(log.init_order)

InitPosition(o) == CHOOSE i \in DOMAIN log.init_order : log.init_order[i] = o

Planning == pc \in {"planning", "done", "failed"} /\ log.init_order # <<>>

PlanningEnded == pc = "done" /\ log.outcome = "ran" /\ log.init_order # <<>>

(* C1: on an acyclic graph the worklist loop initializes no node twice,  *)
(* initializes the source of every edge before its destination, and has  *)
(* initialized every node when planning ends.                            *)
C1_TopologicalInitialization ==
  (Planning /\ Acyclic(PlannedEdges)) =>
    /\ \A i \in DOMAIN log.init_order, j \in DOMAIN log.init_order :
         i # j => log.init_order[i] # log.init_order[j]
    /\ \A e \in PlannedEdges :
         e[2] \in Initialized =>
           e[1] \in Initialized /\ InitPosition(e[1]) < InitPosition(e[2])
    /\ PlanningEnded => Initialized = SeqToSet(nodes)

(* A plan of an acyclic graph of three nodes in which a node has two     *)
(* predecessors.                                                         *)
C1_Witness ==
  /\ PlanningEnded
  /\ Acyclic(PlannedEdges)
  /\ Len(nodes) >= 3
  /\ \E v \in SeqToSet(nodes) : Len(get_previous_nodes(nodes, edges, v)) >= 2

(* The input of v an edge of the graph ends at, for an edge that was a   *)
(* feedback edge: its source was not initialized when v was visited.     *)
FeedbackEdge(e) ==
  /\ e \in PlannedEdges
  /\ e[2] \in Initialized
  /\ \/ e[1] = e[2]
     \/ e[1] \notin Initialized
     \/ InitPosition(e[1]) > InitPosition(e[2])

FeedbackInputs(e) == UNION {plan.edges0[e][sp] : sp \in DOMAIN plan.edges0[e]}

(* C2 (as amended): a node that has an input execution port and is       *)
(* visited while itself or an uninitialized node is among its            *)
(* predecessors gets the queue size 1, and a receiver of capacity 1, on  *)
(* that input execution port.                                            *)
C2_ExecInputSizeOne ==
  Planning =>
    \A e \in PlannedEdges :
      (FeedbackEdge(e) /\ ops[e[2]].input_exec_spec # NullPort) =>
        LET io == ops[e[2]].inputs[ops[e[2]].input_exec_spec]
        IN io.queue_size = 1 /\ io.capacity = 1

(* A planned cycle of two distinct nodes joined by control flow, the     *)
(* node the cycle was detected at having two incoming control edges.     *)
C2_Witness ==
  /\ PlanningEnded
  /\ \E e \in PlannedEdges :
       /\ FeedbackEdge(e)
       /\ e[1] # e[2]
       /\ ops[e[2]].input_exec_spec # NullPort
       /\ Len(get_previous_nodes(nodes, edges, e[2])) >= 2

(* C2 (as stated): every input a feedback edge ends at has the resolved  *)
(* queue size 1, whatever was declared for it.                           *)
C2_AsStated ==
  PlanningEnded =>
    \A e \in PlannedEdges :
      FeedbackEdge(e) =>
        \A l \in FeedbackInputs(e) \cap DOMAIN ops[e[2]].inputs :
          ops[e[2]].inputs[l].capacity = 1

(* The destinations <<node, port>> of the output port sp of o in the     *)
(* graph planning was started on.                                        *)
OutputTargets(o, sp) ==
  UNION {{<<e[2], tp>> : tp \in (IF sp \in DOMAIN plan.edges0[e]
                                 THEN plan.edges0[e][sp] ELSE {})} :
           e \in {x \in PlannedEdges : x[1] = o}}

(* The output ports of non-virtual operators with two destinations or    *)
(* more.                                                                 *)
FanOutPorts ==
  UNION {{<<o, sp>> : sp \in {l \in DOMAIN ops[o].outputs :
                                Cardinality(OutputTargets(o, l)) >= 2}} :
           o \in {n \in SeqToSet(nodes) : ops[n].type # "kVirtual"}}

(* The operator sends to another fragment: a successor is a virtual      *)
(* operator, or a connected output has a UCX connector.                  *)
SendsAcrossFragments(o) ==
  \/ \E e \in PlannedEdges : e[1] = o /\ ops[e[2]].type = "kVirtual"
  \/ \E sp \in DOMAIN ops[o].outputs :
       ops[o].outputs[sp].connector_type = "kUCX" /\ OutputTargets(o, sp) # {}

Occurrences(s, x) == Cardinality({i \in DOMAIN s : s[i] = x})

SourceMinSize(o, sp) ==
  IF AffordableConditions(ops[o].outputs[sp]) # <<>>
  THEN Head(AffordableConditions(ops[o].outputs[sp])).min_size
  ELSE kSizeOne

(* One broadcast entity fed by the port, one transmitter per destination.*)
BroadcastInserted(o, sp) ==
  /\ <<o, sp>> \in DOMAIN bcast
  /\ Occurrences(exec.implicit_broadcast_entities, <<o, sp>>) = 1
  /\ CopiesIn(<<Port(o, sp), BroadcastRx(o, sp)>>, conns) = 1
  /\ Len(bcast[<<o, sp>>].tx) = Cardinality(OutputTargets(o, sp))
  /\ {bcast[<<o, sp>>].tx[k].target : k \in DOMAIN bcast[<<o, sp>>].tx}
       = OutputTargets(o, sp)

EdgesInto(v, l) ==
  UNION {{<<e[1], sp>> : sp \in {x \in DOMAIN plan.edges0[e] :
                                   l \in plan.edges0[e][x]}} :
           e \in {x \in PlannedEdges : x[2] = v}}

PrecedingCountInputs(v) ==
  {l \in DOMAIN ops[v].inputs : ops[v].inputs[l].queue_size = kPrecedingCount}

(* C4: an input port that is declared kPrecedingCount when its operator  *)
(* is initialized gets a receiver whose capacity is the number of edges  *)
(* of the graph into that port, and the default message-available        *)
(* condition the port gets has the same min_size.                        *)
C4_PrecedingCountResolution ==
  Planning =>
    \A v \in {n \in Initialized : ops[n].type # "kVirtual"} :
      \A l \in PrecedingCountInputs(v) :
        /\ ops[v].inputs[l].capacity = Cardinality(EdgesInto(v, l))
        /\ \A i \in DOMAIN ops[v].inputs[l].conditions :
             ops[v].inputs[l].conditions[i].type = "kMessageAvailable" =>
               ops[v].inputs[l].conditions[i].min_size =
                 Cardinality(EdgesInto(v, l))

(* A planned data input declared kPrecedingCount that two edges end at   *)
(* and that got the default condition.                                   *)
C4_Witness ==
  /\ PlanningEnded
  /\ \E v \in {n \in Initialized : ops[n].type # "kVirtual"} :
       \E l \in PrecedingCountInputs(v) :
         /\ l # kInputExecPortName
         /\ Cardinality(EdgesInto(v, l)) = 2
         /\ ops[v].inputs[l].conditions = <<Condition("kMessageAvailable", 2)>>

(* The graph was lowered for this run of the executor.                   *)
Lowered == pc \in {"planning", "failed"} \/ (pc = "done" /\ nodes # <<>>)

SyntheticNodes == SeqToSet(nodes) \ UserOps

ItemIndex(i) == connection_index(exec.connection_items, i)

(* The port map of the edge e of the planned graph maps sp to tp only.   *)
FeedsOnly(e, sp, tp) ==
  /\ e \in PlannedEdges
  /\ DOMAIN plan.edges0[e] = {sp}
  /\ plan.edges0[e][sp] = {tp}

(* The synthetic nodes of the i-th connection item.                      *)
ItemNodes(i) ==
  LET it == exec.connection_items[i]
  IN IF it.io_type = "kOutput"
     THEN {VirtualTx(it.op, it.port, ItemIndex(i))}
     ELSE {VirtualRx(it.op, it.port, ItemIndex(i))} \cup
          {n \in SyntheticNodes :
             n[1] = "forward" /\ n[2] = it.op[2] /\ n[3] = it.port}

ItemLowered(i) ==
  LET it == exec.connection_items[i]
      vtx == VirtualTx(it.op, it.port, ItemIndex(i))
      vrx == VirtualRx(it.op, it.port, ItemIndex(i))
  IN IF it.io_type = "kOutput"
     THEN /\ vtx \in SeqToSet(nodes)
          /\ ops[vtx].type = "kVirtual"
          /\ it.port \in DOMAIN plan.edges0[<<it.op, vtx>>]
          /\ plan.edges0[<<it.op, vtx>>][it.port] = {it.port}
          /\ get_previous_nodes(nodes, plan.edges0, vtx) = <<it.op>>
     ELSE /\ vrx \in SeqToSet(nodes)
          /\ ops[vrx].type = "kVirtual"
          /\ \E fwd \in ItemNodes(i) \ {vrx} :
               /\ ItemNodes(i) = {vrx, fwd}
               /\ FeedsOnly(<<vrx, fwd>>, it.port, P("in"))
               /\ get_next_nodes(nodes, plan.edges0, vrx) = <<fwd>>
               /\ get_next_nodes(nodes, plan.edges0, fwd) = <<it.op>>
               /\ \E tp \in DOMAIN ops[it.op].inputs :
                    /\ tp[1] = it.port[1]
                    /\ FeedsOnly(<<fwd, it.op>>, P("out"), tp)

HasNone(io) == \E i \in DOMAIN io.conditions : io.conditions[i].type = "kNone"

(* C6 (as stated): an initialized operator that has an execution output  *)
(* port has the condition kNone on that port if it has a self-edge, and  *)
(* no kNone condition on it otherwise.                                   *)
C6_AsStated ==
  Planning =>
    \A n \in {x \in Initialized : kOutputExecPortName \in DOMAIN ops[x].outputs} :
      HasNone(ops[n].outputs[kOutputExecPortName]) = (<<n, n>> \in PlannedEdges)

(* The plan the executor holds now.                                      *)
CurrentPlan ==
  PlanOf(ops, nodes, conns, bcast, exec.implicit_broadcast_entities)

C8_ControlFlowNeedsNative ==
  pc = "compose" =>
    \A u \in UserOps, d \in UserOps :
      (IsControlFlow(ops[d]) /\ ~(ops[u].type = "kNative" /\ ops[d].type = "kNative")) =>
        \A r \in add_flow(ops, nodes, edges, u, d, {}) :
          ~r.ok /\ r.ops = ops /\ r.nodes = nodes /\ r.edges = edges

(* Such a call was made on a graph that has an edge already.             *)
C8_Witness ==
  /\ pc = "compose"
  /\ log.error = "not native"
  /\ DOMAIN edges # {}

(* C9: in every state of the composition, add_flow with empty port_pairs *)
(* that does not take the control-flow branch is rejected if the         *)
(* upstream operator has more than one output port or the downstream     *)
(* operator more than one input port, and leaves the operators, the      *)
(* nodes and the edges as they are.                                      *)
C9_AmbiguousPortsRejected ==
  pc = "compose" =>
    \A u \in UserOps, d \in UserOps :
      (/\ ~IsControlFlow(ops[d])
       /\ \/ Cardinality(DOMAIN ops[u].outputs) > 1
          \/ Cardinality(DOMAIN ops[d].inputs) > 1) =>
        \A r \in add_flow(ops, nodes, edges, u, d, {}) :
          ~r.ok /\ r.ops = ops /\ r.nodes = nodes /\ r.edges = edges

(* The call from the operator with the outputs "out" and "out2" to one   *)
(* with the single input "in" of queue size four was rejected.           *)
C9_Witness ==
  /\ pc = "compose"
  /\ log.error = "ambiguous output port"
  /\ decl = DeclData

InvalidInputs(o) ==
  {l \in DOMAIN ops[o].inputs :
     /\ ops[o].inputs[l].queue_size # kAnySize
     /\ resolved_queue_size(ops[o].inputs[l], Cardinality(EdgesInto(o, l))) < 1}

(* The worklist loop reached op->initialize() for o.                     *)
InitializeCalled(o) ==
  /\ pc \in {"planning", "done", "failed"}
  /\ o \in plan.visited
  /\ ops[o].type # "kVirtual"
  /\ ~mitigation_derefs_null(ops[o], o, get_previous_nodes(nodes, edges, o))

(* C11: when op->initialize() is called for an operator that has an      *)
(* input whose resolved queue size is below one, the call throws: the    *)
(* run fails, the error names the operator and one such input, the       *)
(* operator is not initialized and none of these inputs has a receiver;  *)
(* no error names an input whose resolved queue size is one or more.     *)
C11_InvalidQueueSizeIsFatal ==
  /\ \A o \in SeqToSet(nodes) :
       (InitializeCalled(o) /\ InvalidInputs(o) # {}) =>
         /\ pc = "failed"
         /\ log.outcome = "threw"
         /\ o \notin Initialized
         /\ Len(log.thrown) = 2
         /\ log.thrown[1] = o
         /\ log.thrown[2] \in InvalidInputs(o)
         /\ \A l \in InvalidInputs(o) :
              ops[o].inputs[l].connector = "null" /\ ops[o].inputs[l].capacity = 0
  /\ log.thrown # <<>> =>
       /\ pc = "failed"
       /\ log.thrown[2] \in InvalidInputs(log.thrown[1])

(* An operator with an input declared with a queue size below one was    *)
(* visited after another operator was initialized.                       *)
C11_Witness ==
  /\ pc = "failed"
  /\ log.init_order # <<>>
  /\ Len(log.thrown) = 2
  /\ ops[log.thrown[1]].inputs[log.thrown[2]].queue_size = InvalidQueueSize

(* The inputs "<name>:<index>" of d.                                     *)
IndexedInputs(d, name) ==
  {l \in DOMAIN ops[d].inputs : l[1] = name[1] /\ l[2] >= 0}

(* The edges of the graph that end at the input l of d: source operator, *)
(* source port and l.                                                    *)
EdgesTargeting(d, l) ==
  UNION {{<<e[1], sp, l>> : sp \in {x \in DOMAIN edges[e] : l \in edges[e][x]}} :
           e \in {x \in DOMAIN edges : x[2] = d}}

EdgesTargetingIndexed(d, name) ==
  UNION {EdgesTargeting(d, l) : l \in IndexedInputs(d, name)}

(* C12 (as stated): for a kAnySize input <name> of an operator, the      *)
(* indexed inputs are <name>:0 .. <name>:(k-1) for the k edges that were *)
(* added towards <name>, every one of them is the target of one edge,    *)
(* no edge targets <name> itself, and <name> gets no receiver.           *)
C12_AsStated ==
  \A d \in UserOps : \A name \in DOMAIN ops[d].params :
    /\ pc \in {"compose", "composed"} =>
         /\ IndexedInputs(d, name) =
              {Indexed(name, i) :
                 i \in 0..(Cardinality(EdgesTargetingIndexed(d, name)) - 1)}
         /\ \A l \in IndexedInputs(d, name) :
              Cardinality(EdgesTargeting(d, l)) = 1
         /\ EdgesTargeting(d, name) = {}
    /\ d \in Initialized => ops[d].inputs[name].connector = "null"

(* What holds of the indexed inputs whatever add_flow calls were made:   *)
(* they are numbered without gap from 0, as many as the parameter's      *)
(* IOSpec vector holds, every edge towards <name> targets indexed inputs *)
(* only, no two edges share one, and <name> gets no receiver.            *)
IndexedInputsNumbered ==
  \A d \in UserOps : \A name \in DOMAIN ops[d].params :
    /\ IndexedInputs(d, name) =
         {Indexed(name, i) : i \in 0..(ops[d].params[name] - 1)}
    /\ pc \in {"compose", "composed"} =>
         /\ \A l \in IndexedInputs(d, name) :
              Cardinality(EdgesTargeting(d, l)) <= 1
         /\ EdgesTargeting(d, name) = {}
    /\ d \in Initialized => ops[d].inputs[name].connector = "null"

(* The conditions the port l of v was declared with; kind is "inputs"    *)
(* or "outputs".  Ports that add_flow or the lowering created have none. *)
DeclaredConditions(v, kind, l) ==
  IF v \in UserOps /\ l \in DOMAIN decl[v][kind]
  THEN decl[v][kind][l].conditions ELSE <<>>

(* The initialized operators that have a codelet, and their inputs that  *)
(* get a receiver.                                                       *)
InitializedCodelets == {n \in Initialized : ops[n].type # "kVirtual"}

ReceiverInputs(v) ==
  {l \in DOMAIN ops[v].inputs : ops[v].inputs[l].queue_size # kAnySize}

InputHasUserCondition(v, l) ==
  \/ DeclaredConditions(v, "inputs", l) # <<>>
  \/ l \in ops[v].non_default_input_ports

(* C13: an input of an initialized operator has the default              *)
(* message-available condition, with min_size equal to its resolved      *)
(* queue size, if and only if the port has no user-supplied condition    *)
(* and is named by no multi-port condition of the operator; otherwise it *)
(* has the conditions it was declared with and no other.                 *)
C13_DefaultMessageAvailable ==
  Planning =>
    \A v \in InitializedCodelets : \A l \in ReceiverInputs(v) :
      ops[v].inputs[l].conditions =
        IF /\ ~InputHasUserCondition(v, l)
           /\ ~port_has_multi_port_condition(ops[v], l)
        THEN <<Condition("kMessageAvailable",
                         resolved_queue_size(ops[v].inputs[l],
                                             Cardinality(EdgesInto(v, l))))>>
        ELSE DeclaredConditions(v, "inputs", l)

(* Planning ended with operators that have an input of a multi-port      *)
(* condition, an input named by a condition argument, an input declared  *)
(* with a condition, and an input with none of these that two edges end  *)
(* at.                                                                   *)
C13_Witness ==
  /\ PlanningEnded
  /\ \E v \in InitializedCodelets : \E l \in ReceiverInputs(v) :
       port_has_multi_port_condition(ops[v], l) /\ ops[v].inputs[l].conditions = <<>>
  /\ \E v \in InitializedCodelets : \E l \in ReceiverInputs(v) :
       l \in ops[v].non_default_input_ports /\ ops[v].inputs[l].conditions = <<>>
  /\ \E v \in InitializedCodelets : \E l \in ReceiverInputs(v) :
       ops[v].inputs[l].conditions = <<Condition("kNone", 0)>>

(* An input of the default kind that two edges end at.                   *)
C13_WitnessDefault ==
  /\ PlanningEnded
  /\ \E v \in InitializedCodelets : \E l \in ReceiverInputs(v) :
       ops[v].inputs[l].conditions = <<Condition("kMessageAvailable", 2)>>

OutputHasUserCondition(v, l) ==
  \/ DeclaredConditions(v, "outputs", l) # <<>>
  \/ l \in ops[v].non_default_output_ports

DefaultAffordable == <<Condition("kDownstreamMessageAffordable", kSizeOne)>>

(* The output that cycle mitigation gave the condition kNone before the  *)
(* operator was initialized.                                             *)
MitigatedOutput(v, l) ==
  /\ ops[v].input_exec_spec # NullPort
  /\ ops[v].output_exec_spec = l
  /\ <<v, v>> \in PlannedEdges

(* C14 (as stated): an output of an initialized operator has the default *)
(* downstream-affordable condition with min_size 1 if and only if it has *)
(* no user-supplied condition and its connector is not UCX.              *)
C14_AsStated ==
  Planning =>
    \A v \in InitializedCodelets : \A l \in DOMAIN ops[v].outputs :
      (ops[v].outputs[l].conditions = DefaultAffordable)
        = (/\ ~OutputHasUserCondition(v, l)
           /\ ops[v].outputs[l].connector_type # "kUCX")

(* C14: an output of an initialized operator has the default             *)
(* downstream-affordable condition with min_size 1, and no other         *)
(* condition, if and only if it has no user-supplied condition, its      *)
(* connector is not UCX, and it is not the output that cycle mitigation  *)
(* gave the condition kNone; an output without the default has no        *)
(* downstream-affordable condition at all.                               *)
C14_DefaultDownstreamAffordable ==
  Planning =>
    \A v \in InitializedCodelets : \A l \in DOMAIN ops[v].outputs :
      /\ (ops[v].outputs[l].conditions = DefaultAffordable)
           = (/\ ~OutputHasUserCondition(v, l)
              /\ ops[v].outputs[l].connector_type # "kUCX"
              /\ ~MitigatedOutput(v, l))
      /\ ops[v].outputs[l].conditions # DefaultAffordable =>
           AffordableConditions(ops[v].outputs[l]) = <<>>

(* Planning ended with an operator that has a self-edge, whose output    *)
(* execution port holds kNone alone, and an output with the default.     *)
C14_Witness ==
  /\ PlanningEnded
  /\ \E v \in InitializedCodelets : \E l \in DOMAIN ops[v].outputs :
       /\ MitigatedOutput(v, l) /\ ~OutputHasUserCondition(v, l)
       /\ ops[v].outputs[l].conditions = <<Condition("kNone", 0)>>
  /\ \E v \in InitializedCodelets : \E l \in DOMAIN ops[v].outputs :
       ops[v].outputs[l].conditions = DefaultAffordable

(* Planning ended with a UCX output, an output declared with a condition *)
(* and an output named by a condition argument, none with the default.   *)
C14_WitnessUcx ==
  /\ PlanningEnded
  /\ \E v \in InitializedCodelets : \E l \in DOMAIN ops[v].outputs :
       ops[v].outputs[l].connector_type = "kUCX" /\ ops[v].outputs[l].conditions = <<>>

C14_WitnessUser ==
  /\ PlanningEnded
  /\ \E v \in InitializedCodelets : \E l \in DOMAIN ops[v].outputs :
       l \in ops[v].non_default_output_ports /\ ops[v].outputs[l].conditions = <<>>
  /\ \E v \in InitializedCodelets : \E l \in DOMAIN ops[v].outputs :
       /\ DeclaredConditions(v, "outputs", l) # <<>>
       /\ ops[v].outputs[l].conditions = DeclaredConditions(v, "outputs", l)

(* The edges <<o, sp, t>> of the planned graph from the output sp of a  *)
(* non-virtual operator o to the input t[2] of another non-virtual       *)
(* operator t[1], where the connector of sp is not UCX.                  *)
LocalEdges ==
  UNION {UNION {{<<o, sp, t>> :
                   t \in {x \in OutputTargets(o, sp) :
                            x[1] # o /\ ops[x[1]].type # "kVirtual"}} :
                 sp \in {l \in DOMAIN ops[o].outputs :
                           ops[o].outputs[l].connector_type # "kUCX"}} :
           o \in {n \in SeqToSet(nodes) : ops[n].type # "kVirtual"}}

DirectConnections(o, sp, t) ==
  CopiesIn(<<Port(o, sp), Port(t[1], t[2])>>, conns)

(* The connections from a transmitter of the broadcast entity of the     *)
(* port to the destination t, if the port feeds a broadcast entity.      *)
BroadcastConnections(o, sp, t) ==
  IF <<o, sp>> \in DOMAIN bcast
     /\ CopiesIn(<<Port(o, sp), BroadcastRx(o, sp)>>, conns) = 1
  THEN Cardinality({k \in DOMAIN bcast[<<o, sp>>].tx :
                      /\ bcast[<<o, sp>>].tx[k].target = t
                      /\ CopiesIn(<<Btx(o, sp, k), Port(t[1], t[2])>>, conns) = 1})
  ELSE 0

(* The edge e closes a cycle: its source was initialized after its       *)
(* destination, so the visit of the destination deferred the wiring.     *)
Deferred(e) == InitPosition(e[1]) > InitPosition(e[3][1])

(* C15 (as stated): when planning ends, every edge between two distinct  *)
(* non-virtual operators whose source connector is not UCX has a         *)
(* connection from the source port to the destination port.              *)
C15_AsStated ==
  PlanningEnded =>
    \A e \in LocalEdges : DirectConnections(e[1], e[2], e[3]) >= 1

(* C15: when planning ends, every edge between two distinct non-virtual  *)
(* operators whose source connector is not UCX is wired.  An edge whose  *)
(* wiring was deferred has exactly one connection from the source port   *)
(* to the destination port, and one more from a transmitter of the       *)
(* broadcast entity of the source port if there is one.  Any other edge  *)
(* has exactly one of the two, the broadcast one if and only if the      *)
(* source port feeds a broadcast entity.                                 *)
C15_DeferredWiringCompleted ==
  PlanningEnded =>
    \A e \in LocalEdges :
      LET broadcast == IF <<e[1], e[2]>> \in DOMAIN bcast THEN 1 ELSE 0
      IN /\ BroadcastConnections(e[1], e[2], e[3]) = broadcast
         /\ DirectConnections(e[1], e[2], e[3])
              = IF Deferred(e) THEN 1 ELSE 1 - broadcast

(* Planning ended on a graph with a cycle: an edge whose wiring was      *)
(* deferred has its connection.                                          *)
C15_Witness ==
  /\ PlanningEnded
  /\ \E e \in LocalEdges : Deferred(e) /\ DirectConnections(e[1], e[2], e[3]) = 1

(* A deferred edge wired through a broadcast entity.                     *)
C15_WitnessBroadcast ==
  /\ PlanningEnded
  /\ \E e \in LocalEdges : Deferred(e) /\ BroadcastConnections(e[1], e[2], e[3]) = 1

(* The nodes of ns that are not in the set visited, in insertion order.  *)
Unfinalized(ns, visited) == SelectSeq(ns, LAMBDA n : n \notin visited)

IsPrefix(s, t) == Len(s) <= Len(t) /\ \A i \in DOMAIN s : s[i] = t[i]

(* The order in which a FIFO worklist over the nodes ns and the edges E  *)
(* finalizes the nodes: w is the worklist, deg the indegrees, done the   *)
(* finalized nodes; an empty worklist is refilled with the unfinalized   *)
(* nodes in insertion order, their indegrees set to zero.                *)
RECURSIVE Decrement(_, _, _)
Decrement(st, succs, done) ==
  IF succs = <<>> THEN st
  ELSE LET n == Head(succs)
           d == st.deg[n] - 1
       IN Decrement([deg |-> [st.deg EXCEPT ![n] = d],
                     w |-> IF d = 0 THEN Append(st.w, n) ELSE st.w],
                    Tail(succs), done)

RECURSIVE FifoOrder(_, _, _, _)
FifoOrder(ns, E, st, done) ==
  IF st.w = <<>> /\ done = SeqToSet(ns) THEN <<>>
  ELSE LET f == IF st.w # <<>> THEN st
                ELSE [deg |-> [n \in DOMAIN st.deg |->
                                 IF n \in done THEN st.deg[n] ELSE 0],
                      w |-> Unfinalized(ns, done)]
           o == Head(f.w)
           rest == [f EXCEPT !.w = Tail(@)]
       IN IF o \in done THEN FifoOrder(ns, E, rest, done)
          ELSE <<o>> \o FifoOrder(ns, E,
                         Decrement(rest,
                                   SelectSeq(ns, LAMBDA n : <<o, n>> \in E),
                                   done),
                         done \cup {o})

FinalizationOrder(ns, E) ==
  LET deg == [n \in SeqToSet(ns) |->
                Cardinality({e \in E : e[2] = n})]
  IN FifoOrder(ns, E, [deg |-> deg, w |-> SelectSeq(ns, LAMBDA n : deg[n] = 0)],
               {})

(* One iteration of the worklist loop, seen from outside: the node       *)
(* popped is the head of the worklist, or of the unfinalized nodes in    *)
(* insertion order if the worklist was empty, in which case no indegree  *)
(* is positive afterwards and the indegrees of the finalized nodes are   *)
(* as before; what was behind the head stays in front of what is pushed. *)
WorklistStep ==
  (pc = "planning" /\ plan' # plan) =>
    LET was_empty == plan.worklist = <<>>
        queue == IF was_empty THEN Unfinalized(nodes, plan.visited)
                 ELSE plan.worklist
    IN /\ queue # <<>>
       /\ plan'.visited = plan.visited \cup {Head(queue)}
       /\ IsPrefix(Tail(queue), plan'.worklist)
       /\ log'.init_order \in
            {log.init_order,
             IF Head(queue) \in plan.visited THEN log.init_order
             ELSE Append(log.init_order, Head(queue))}
       /\ was_empty =>
            /\ \A n \in SeqToSet(nodes) : plan'.indegrees[n] <= 0
            /\ \A n \in plan.visited :
                 plan.indegrees[n] = 0 /\ plan'.indegrees[n] <= 0

(* The worklist planning starts with: the nodes without predecessor, in  *)
(* insertion order.                                                      *)
RootsFirst ==
  (pc = "planning" /\ plan.visited = {}) =>
    plan.worklist = SelectSeq(nodes, LAMBDA n :
                                \A e \in PlannedEdges : e[2] # n)

(* The operators initialized so far are a prefix of the order that the   *)
(* nodes and the edges determine.                                        *)
OrderDetermined ==
  Planning => IsPrefix(log.init_order, FinalizationOrder(nodes, PlannedEdges))

(* C16: planning starts with the roots in insertion order, pops the      *)
(* worklist first-in first-out, refills an empty worklist with exactly   *)
(* the unfinalized nodes in insertion order with indegree zero, and the  *)
(* order of initialization is the one that the insertion order and the   *)
(* edges determine.                                                      *)
C16_DeterministicWorklist ==
  /\ [](RootsFirst /\ OrderDetermined)
  /\ [][WorklistStep]_vars

(* Planning ended on a graph with a root and a cycle of two operators    *)
(* that entered the graph before the root: the refill pushed them in     *)
(* insertion order.                                                      *)
C16_Witness ==
  /\ PlanningEnded
  /\ Len(log.init_order) >= 3
  /\ \E r \in Initialized :
       /\ \A e \in PlannedEdges : e[2] # r
       /\ InitPosition(r) = 1
       /\ \E i \in DOMAIN nodes : i > 1 /\ nodes[i] = r
  /\ \E e \in PlannedEdges :
       e[1] # e[2] /\ InitPosition(e[1]) > InitPosition(e[2])

(* The UCX outputs <<p, sp>> of non-virtual operators other than o that *)
(* the planned graph connects to more than one input of the non-virtual  *)
(* operator o.                                                           *)
UcxFanOutInto(o) ==
  UNION {{<<e[1], sp>> :
            sp \in {l \in DOMAIN plan.edges0[e] :
                      /\ Cardinality(plan.edges0[e][l]) > 1
                      /\ ops[e[1]].outputs[l].connector_type = "kUCX"}} :
           e \in {x \in PlannedEdges :
                    /\ x[2] = o /\ x[1] # o
                    /\ ops[x[1]].type # "kVirtual" /\ ops[o].type # "kVirtual"}}

(* The connections that leave the port sp of p.                          *)
ConnectionsFrom(p, sp) ==
  {c \in BagToSet(conns) : c[1] = Port(p, sp)}

Last(s) == s[Len(s)]

(* The UCX fan-out ports into o that met no broadcast entity when o was  *)
(* wired: those of operators visited after o.                            *)
Unbroadcast(o) ==
  {b \in UcxFanOutInto(o) :
     b[1] \notin Initialized \/ InitPosition(b[1]) > InitPosition(o)}

(* C17: the wiring of an operator o fails, and with it planning and the  *)
(* run, exactly when a UCX output of a previous operator is connected to *)
(* more than one input of o and has no broadcast entity yet; the graph  *)
(* is neither activated nor run, and no connection leaves that output.   *)
C17_UcxFanOutIsFatal ==
  Planning =>
    /\ \A o \in Initialized :
         Unbroadcast(o) # {} =>
           /\ log.outcome = "init_failed" /\ pc = "done"
           /\ o = Last(log.init_order)
           /\ \A b \in Unbroadcast(o) :
                b \notin DOMAIN bcast /\ ConnectionsFrom(b[1], b[2]) = {}
    /\ log.outcome = "init_failed" =>
         /\ Unbroadcast(Last(log.init_order)) # {}
         /\ ~exec.is_run_called /\ ~exec.is_gxf_graph_activated

(* Planning failed at an operator two of whose inputs are fed by one UCX *)
(* output of an operator that was not initialized yet.                   *)
C17_Witness ==
  /\ log.outcome = "init_failed"
  /\ pc = "done"
  /\ Unbroadcast(Last(log.init_order)) # {}

(* The connection items that name an output, and the number of          *)
(* operators that the planned graph connects the output sp of o to.      *)
OutputItems ==
  {i \in DOMAIN exec.connection_items :
     exec.connection_items[i].io_type = "kOutput"}

Paths(o, sp) ==
  Cardinality({e \in PlannedEdges : e[1] = o /\ sp \in DOMAIN plan.edges0[e]})

(* C18: once the graph is lowered, the output that a virtual transmitter *)
(* was generated for has the UCX connector of the transmitter and never  *)
(* a broadcast entity if it is connected to one operator only (the       *)
(* virtual transmitter); if it is connected to more, it has the          *)
(* connector it was declared with and, when planning ends, one broadcast *)
(* entity with a transmitter for each of its destinations.               *)
C18_CollapseOntoSinglePath ==
  (Lowered /\ plan.edges0 # NoEdges) =>
    \A i \in OutputItems :
      LET o == exec.connection_items[i].op
          sp == exec.connection_items[i].port
      IN /\ Paths(o, sp) >= 1
         /\ IF Paths(o, sp) = 1
            THEN /\ ops[o].outputs[sp].connector_type = "kUCX"
                 /\ <<o, sp>> \notin DOMAIN bcast
                 /\ OutputTargets(o, sp)
                      = {<<VirtualTx(o, sp, ItemIndex(i)), sp>>}
            ELSE /\ ops[o].outputs[sp].connector_type
                      = decl[o].outputs[sp].connector_type
                 /\ PlanningEnded => BroadcastInserted(o, sp)

(* Planning ended for an output with a virtual transmitter only, its     *)
(* connector set to UCX and declared otherwise.                          *)
C18_Witness ==
  /\ PlanningEnded
  /\ \E i \in OutputItems :
       LET o == exec.connection_items[i].op
           sp == exec.connection_items[i].port
       IN /\ Paths(o, sp) = 1
          /\ decl[o].outputs[sp].connector_type = "kDefault"
          /\ ops[o].outputs[sp].connector_type = "kUCX"
          /\ o \in Initialized

(* Planning ended for an output with a virtual transmitter and another   *)
(* destination: the connector is the default one and a broadcast entity  *)
(* feeds both.                                                           *)
C18_WitnessFanOut ==
  /\ PlanningEnded
  /\ \E i \in OutputItems :
       LET o == exec.connection_items[i].op
           sp == exec.connection_items[i].port
       IN /\ Paths(o, sp) = 2
          /\ ops[o].outputs[sp].connector_type = "kDefault"
          /\ <<o, sp>> \in DOMAIN bcast

(* ------------------------------------------------------------------ *)
(* Fragments with thread pools and GPU-bound resources                  *)
(* ------------------------------------------------------------------ *)
NumPools == 2      \* thread pools of the fragment
NumDevices == 2    \* CUDA device ids the operators' resources name

(* The declarations of an operator: with or without a UCX connector, on  *)
(* an output or on an input, with or without a resource on a device.     *)
GroupKinds(o) ==
  {[k EXCEPT !.dev_id = d] :
     k \in {Mid(kSizeOne), IF o[2] % 2 = 1 THEN MidUcx ELSE MidUcxIn},
     d \in {kNoDevice} \cup 0..(NumDevices - 1)}

DeclsGroups == {d \in [UserOps -> UNION {GroupKinds(o) : o \in UserOps}] :
                  \A o \in UserOps : d[o] \in GroupKinds(o)}

(* The thread pools that make_thread_pool and ThreadPool::add give: a is *)
(* the pool of each operator, 0 for none.                                *)
ThreadPools(ns, a) ==
  LET pool(i) == [name |-> PoolEntityGroup(i),
                  operators |-> SelectSeq(ns, LAMBDA n : a[n] = i)]
      used == SelectSeq([i \in 1..NumPools |-> i],
                        LAMBDA i : \E n \in SeqToSet(ns) : a[n] = i)
  IN [k \in DOMAIN used |-> pool(used[k])]

(* A composed fragment of unconnected operators with a network context.  *)
InitGroups ==
  /\ decl \in DeclsGroups
  /\ program = NoProgram
  /\ ops = decl
  /\ nodes = [i \in 1..NumOps |-> U(i)]
  /\ edges = NoEdges
  /\ \E a \in [UserOps -> 0..NumPools] :
       frag = [InitFragment EXCEPT !.is_composed = TRUE,
                                   !.network_context = TRUE,
                                   !.thread_pools = ThreadPools(nodes, a)]
  /\ exec = InitExec
  /\ conns = EmptyBag
  /\ bcast = NoBroadcast
  /\ plan = NoPlan
  /\ pc = "composed"
  /\ log = NoLog
  /\ groups = NoGroups
  /\ threads = NoThreads

NextGroups ==
  \/ ExecutorRun
  \/ VisitOp
  \/ PlanDone

SpecGroups == InitGroups /\ [][NextGroups]_vars

(* The groups before the device pass, the operators that need a device,  *)
(* and the devices the pass made in the entities of a group.             *)
PooledGroups ==
  configure_thread_pools(entity_groups(ops, nodes), frag.thread_pools).groups

UcxOperators ==
  {n \in SeqToSet(nodes) :
     ops[n].type # "kVirtual" /\ op_has_ucx_connector(ops[n])}

Generated(g) ==
  {d \in SeqToSet(groups.generated) :
     \E n \in Members(groups, g) : d \in SeqToSet(groups.devices[n])}

DevicePassDone ==
  pc = "done" /\ log.outcome = "ran" /\ frag.network_context /\ nodes # <<>>

(* C19: after an initialization with a network context, the entity group *)
(* of every non-virtual operator with a UCX connector has a GPUDevice;   *)
(* the groups that got a generated device are exactly those of such      *)
(* operators that had none, each got one, and the k-th generated device  *)
(* is named with the count k - 1.                                        *)
C19_GpuDevicePerGroup ==
  DevicePassDone =>
    /\ \A n \in UcxOperators : GroupDevices(groups, groups.of[n]) # {}
    /\ \A g \in {groups.of[n] : n \in DOMAIN groups.of} :
         Cardinality(Generated(g))
           = IF /\ GroupDevices(PooledGroups, g) = {}
                /\ \E n \in UcxOperators : groups.of[n] = g
             THEN 1 ELSE 0
    /\ groups.generated
         = [k \in 1..Len(groups.generated) |-> GpuDeviceEntity(k - 1)]
    /\ \A n \in DOMAIN groups.of : groups.of[n] = PooledGroups.of[n]

(* Two devices were generated, for two groups, while a third operator    *)
(* with a UCX connector is in a group that had a device.                 *)
C19_Witness ==
  /\ DevicePassDone
  /\ groups.generated = <<GpuDeviceEntity(0), GpuDeviceEntity(1)>>
  /\ \E n \in UcxOperators :
       /\ GroupDevices(PooledGroups, groups.of[n]) # {}
       /\ Generated(groups.of[n]) = {}

(* Two operators with a UCX connector in one group without a device: one *)
(* device was generated.                                                 *)
C19_WitnessShared ==
  /\ DevicePassDone
  /\ Len(groups.generated) = 1
  /\ \E n \in UcxOperators, m \in UcxOperators :
       n # m /\ groups.of[n] = groups.of[m] /\ Generated(groups.of[n]) # {}

(* ------------------------------------------------------------------ *)
(* Threads that run one fragment each, with an executor of their own    *)
(* ------------------------------------------------------------------ *)
OtherVars ==
  <<decl, program, ops, nodes, edges, frag, exec, conns, bcast, plan, pc, log,
    groups>>

(* GXFExecutor::run enters initialize_gxf_graph and comes to the         *)
(* scoped_lock of the static gxf_execution_mutex.                        *)
ThreadRun(t) ==
  /\ threads.at[t] = "idle"
  /\ threads' = [threads EXCEPT !.at[t] = "waiting"]
  /\ UNCHANGED OtherVars

(* std::scoped_lock lock{gxf_execution_mutex}                            *)
AcquireLock(t) ==
  /\ threads.at[t] = "waiting"
  /\ threads.mutex = 0
  /\ threads' = [threads EXCEPT !.at[t] = "lowering", !.mutex = t]
  /\ UNCHANGED OtherVars

(* The locked block ends, normally or by an exception or a return false: *)
(* the lock is released and initialize_gxf_graph is left.                *)
ReleaseLock(t) ==
  /\ threads.at[t] = "lowering"
  /\ \E succeeded \in BOOLEAN :
       threads' = [threads EXCEPT
                     !.at[t] = IF succeeded THEN "lowered" ELSE "returned",
                     !.mutex = 0]
  /\ UNCHANGED OtherVars

(* run_gxf_graph calls activate_gxf_graph, which calls GxfGraphActivate. *)
ActivateGraph(t) ==
  /\ threads.at[t] = "lowered"
  /\ threads' = [threads EXCEPT !.at[t] = "activating"]
  /\ UNCHANGED OtherVars

(* GxfGraphActivate returns; GxfGraphRunAsync and GxfGraphWait.          *)
GraphActivated(t) ==
  /\ threads.at[t] = "activating"
  /\ threads' = [threads EXCEPT !.at[t] = "running"]
  /\ UNCHANGED OtherVars

(* The graph ends and run_gxf_graph returns.                             *)
GraphFinished(t) ==
  /\ threads.at[t] = "running"
  /\ threads' = [threads EXCEPT !.at[t] = "returned"]
  /\ UNCHANGED OtherVars

NextThreads ==
  \E t \in Threads :
    \/ ThreadRun(t)
    \/ AcquireLock(t)
    \/ ReleaseLock(t)
    \/ ActivateGraph(t)
    \/ GraphActivated(t)
    \/ GraphFinished(t)

SpecThreads == Init /\ [][NextThreads]_vars

(* The threads inside the lowering, and inside the activation.           *)
Lowering == {t \in Threads : threads.at[t] = "lowering"}
Activating == {t \in Threads : threads.at[t] = "activating"}

(* C20 (as stated): no two threads are at the same time inside the       *)
(* lowering or the activation of a graph.                                *)
C20_AsStated == Cardinality(Lowering \cup Activating) <= 1

(* What the mutex gives: at most one thread is inside the lowering, and  *)
(* it is the one that holds the mutex.                                   *)
LoweringExclusive ==
  /\ Cardinality(Lowering) <= 1
  /\ \A t \in Threads : (threads.mutex = t) = (t \in Lowering)

(* An operator with a kPrecedingCount input that no edge ends at.        *)
C11_WitnessPrecedingCount ==
  /\ pc = "failed"
  /\ Len(log.thrown) = 2
  /\ ops[log.thrown[1]].inputs[log.thrown[2]].queue_size = kPrecedingCount
  /\ \E l \in DOMAIN ops[log.thrown[1]].inputs :
       ops[log.thrown[1]].inputs[l].connector = "DoubleBufferReceiver"

(* ------------------------------------------------------------------ *)
(* The GXF context across the runs of one fragment                      *)
(* ------------------------------------------------------------------ *)
(* Fragment::run begins: reset_state() is about to run.                  *)
RunBegins == pc \in {"done", "failed"} /\ pc' \in {"compose", "composed"}

(* reset_state() does not return at its first test, and the executor     *)
(* that owns its context has run a graph: GxfContextDestroy and          *)
(* GxfContextCreate.                                                     *)
ContextRecreated ==
  /\ RunBegins
  /\ frag.is_run_called
  /\ exec.owns_context
  /\ exec.is_run_called

(* C21 (as stated): as long as every run of the fragment planned and ran *)
(* its graph without an error, the executor holds the context it was     *)
(* constructed with.                                                     *)
C21_AsStated ==
  (frag.runs >= 1 /\ log.passes = frag.runs) => exec.context = InitExec.context

(* C21: the context changes only at the reset_state() that begins a run, *)
(* and it is destroyed and created anew there exactly when the executor  *)
(* has run a graph before (an earlier run reached run_gxf_graph); a run  *)
(* that follows only runs that failed during lowering finds the context  *)
(* it was constructed with.                                              *)
C21_ContextRecreatedAfterRun ==
  [][/\ ContextRecreated => exec'.context = exec.context + 1
     /\ ~ContextRecreated => exec'.context = exec.context
     /\ exec.is_run_called => exec'.is_run_called]_vars

(* The second run begins after a run of the graph: a new context.        *)
C21_Witness ==
  /\ pc = "compose"
  /\ frag.runs = 1
  /\ log.outcome = "ran"
  /\ exec.context = InitExec.context + 1

(* The second run begins after a lowering that failed: the same context. *)
C21_WitnessReused ==
  /\ pc \in {"compose", "composed"}
  /\ frag.runs = 1
  /\ log.outcome \in {"threw", "init_failed"}
  /\ exec.context = InitExec.context

(* ------------------------------------------------------------------ *)
(* A run after a lowering that failed                                   *)
(* ------------------------------------------------------------------ *)
(* C22 (as stated): a run that gets as far as running the graph has      *)
(* lowered it in that run: every node of the graph is initialized and no *)
(* node is left from an attempt that threw.                              *)
C22_AsStated ==
  (pc = "done" /\ log.outcome = "ran") =>
    /\ SeqToSet(nodes) \subseteq Initialized
    /\ log.thrown = <<>>

(* What holds of a retry once an earlier run() of the fragment has       *)
(* returned: reset_state() leaves a fragment without graph and an        *)
(* executor without initialized graph, connection items, connections or  *)
(* broadcast entities.                                                   *)
RetryAfterReturnedRun ==
  [][(RunBegins /\ frag.is_run_called) =>
       /\ pc' = "compose"
       /\ nodes' = <<>> /\ edges' = NoEdges /\ ops' = decl
       /\ conns' = EmptyBag
       /\ ~frag'.is_composed
       /\ ~exec'.is_gxf_graph_initialized
       /\ exec'.implicit_broadcast_entities = <<>>
       /\ exec'.connection_items = <<>>]_vars

(* ------------------------------------------------------------------ *)
(* The metadata policy after planning                                   *)
(* ------------------------------------------------------------------ *)
(* The policy the application gave the operator (kDefault: none); the    *)
(* operators that lowering adds are made without one.                    *)
DeclaredPolicy(o) ==
  IF o \in DOMAIN decl THEN decl[o].metadata_policy ELSE "kDefault"

(* The planner detected a cycle at o: o has an input execution port and  *)
(* was visited while itself or an uninitialized node was among its       *)
(* predecessors.                                                         *)
DetectedAt(o) ==
  /\ ops[o].input_exec_spec # NullPort
  /\ \E e \in PlannedEdges : e[2] = o /\ FeedbackEdge(e)

(* C23: a node the planner detected a cycle at has the metadata policy   *)
(* kUpdate after its initialization, whatever policy it was given and    *)
(* whatever the fragment's default is; every other initialized node has  *)
(* the policy it was given, or the fragment's default if it was given    *)
(* none.                                                                 *)
C23_FeedbackSwitchesToUpdate ==
  Planning =>
    \A o \in Initialized :
      ops[o].type # "kVirtual" =>
        ops[o].metadata_policy =
          IF DetectedAt(o) THEN "kUpdate"
          ELSE IF DeclaredPolicy(o) = "kDefault" THEN "kFragment"
          ELSE DeclaredPolicy(o)

(* A cycle of two nodes with a node behind it: the node the cycle was    *)
(* detected at had a policy of its own, and so has a node it was not     *)
(* detected at.                                                          *)
C23_Witness ==
  /\ PlanningEnded
  /\ \E o \in Initialized, n \in Initialized :
       /\ DetectedAt(o) /\ ~self_cycle(o, get_previous_nodes(nodes, edges, o))
       /\ DeclaredPolicy(o) \notin {"kDefault", "kUpdate"}
       /\ ~DetectedAt(n)
       /\ DeclaredPolicy(n) \notin {"kDefault", "kUpdate"}
       /\ ops[n].metadata_policy = DeclaredPolicy(n)

(* A node the cycle was detected at that was given no policy.            *)
C23_WitnessDefault ==
  /\ PlanningEnded
  /\ \E o \in Initialized : DetectedAt(o) /\ DeclaredPolicy(o) = "kDefault"

(* ------------------------------------------------------------------ *)
(* The worklist loop ends                                               *)
(* ------------------------------------------------------------------ *)
NoRepetition(s) ==
  \A i \in DOMAIN s, j \in DOMAIN s : i # j => s[i] # s[j]

(* The nodes the loop has not popped yet.                                *)
Unvisited == SeqToSet(nodes) \ plan.visited

(* What every iteration of the loop makes smaller: the unvisited nodes   *)
(* first, the length of the worklist second.                             *)
Variant == Cardinality(Unvisited) * (Len(nodes) + 1) + Len(plan.worklist)

(* The state of the loop between two iterations.                         *)
WorklistSound ==
  /\ NoRepetition(log.init_order)
  /\ Initialized \subseteq plan.visited
  /\ plan.refills <= 1
  /\ pc = "planning" =>
       /\ plan.visited = Initialized
       /\ NoRepetition(plan.worklist)
       /\ SeqToSet(plan.worklist) \subseteq Unvisited
       /\ \A n \in Unvisited :
            plan.indegrees[n] = 0 => n \in SeqToSet(plan.worklist)
       /\ plan.worklist = <<>> /\ ~AllVisited =>
            refill(nodes, plan).worklist # <<>>
  /\ PlanningEnded => Initialized = SeqToSet(nodes) /\ plan.worklist = <<>>

(* An iteration initializes the node it pops, at most that one, and      *)
(* brings the loop nearer to its end.                                    *)
WorklistProgress ==
  pc = "planning" =>
    /\ pc' = "planning" =>
         /\ Variant' < Variant
         /\ log'.init_order = Append(log.init_order,
                                     Head(refill(nodes, plan).worklist))
    /\ pc' # "planning" => Len(log'.init_order) <= Len(log.init_order) + 1
    /\ nodes' = nodes

(* C24: on any graph the worklist loop ends: every iteration pops a node *)
(* from a worklist that is not empty, the popped node was not visited    *)
(* before (a visited node never is in the worklist) and is initialized   *)
(* once, the refill of an empty worklist happens at most once in a pass, *)
(* and when the loop ends without an error every node is initialized.    *)
C24_WorklistTerminates == []WorklistSound /\ [][WorklistProgress]_vars

(* A pass over a graph with a cycle of two nodes and a third node: the   *)
(* worklist was refilled and every node initialized.                     *)
C24_Witness ==
  /\ PlanningEnded
  /\ plan.refills = 1
  /\ Len(nodes) >= 3
  /\ \E e \in PlannedEdges : e[1] # e[2] /\ OnCycle(PlannedEdges, e)
  /\ Initialized = SeqToSet(nodes)

(* A pass over an acyclic graph: no refill.                              *)
C24_WitnessAcyclic ==
  PlanningEnded /\ plan.refills = 0 /\ Len(nodes) >= 3

(* ------------------------------------------------------------------ *)
(* Self-edges                                                           *)
(* ------------------------------------------------------------------ *)
(* The connections from an output of an operator to an input of the      *)
(* same operator.                                                        *)
SelfConnections ==
  {c \in BagToSet(conns) :
     c[1][1] = "port" /\ c[2][1] = "port" /\ c[1][2] = c[2][2]}

(* C25 (as stated): the visit of an operator with a self-edge adds no    *)
(* connection from an output port of the operator to an input port of    *)
(* the same operator.                                                    *)
C25_AsStated == SelfConnections = {}

(* What the visit does: every self-edge between ports without a UCX      *)
(* connector and without broadcast entity has its one connection as soon *)
(* as its operator is initialized.                                       *)
SelfEdgesConnected ==
  Planning =>
    \A o \in Initialized :
      (<<o, o>> \in PlannedEdges /\ ops[o].type # "kVirtual") =>
        \A sp \in DOMAIN plan.edges0[<<o, o>>] :
          (ops[o].outputs[sp].connector_type # "kUCX"
           /\ <<o, sp>> \notin DOMAIN bcast) =>
            \A tp \in plan.edges0[<<o, o>>][sp] :
              CopiesIn(<<Port(o, sp), Port(o, tp)>>, conns) = 1

(* ------------------------------------------------------------------ *)
(* reset_state on a fragment with thread pools, a scheduler and a data  *)
(* flow tracker                                                         *)
(* ------------------------------------------------------------------ *)
(* The fragment of InitGroups; the application may have given it a       *)
(* scheduler and may have called track().                                *)
InitReset ==
  /\ decl \in DeclsGroups
  /\ program = NoProgram
  /\ ops = decl
  /\ nodes = [i \in 1..NumOps |-> U(i)]
  /\ edges = NoEdges
  /\ \E a \in [UserOps -> 0..NumPools],
        sched \in {"null", "user"}, tracked \in BOOLEAN :
       frag = [InitFragment EXCEPT !.is_composed = TRUE,
                                   !.network_context = TRUE,
                                   !.thread_pools = ThreadPools(nodes, a),
                                   !.scheduler = sched,
                                   !.data_flow_tracker = tracked]
  /\ exec = InitExec
  /\ conns = EmptyBag
  /\ bcast = NoBroadcast
  /\ plan = NoPlan
  /\ pc = "composed"
  /\ log = NoLog
  /\ groups = NoGroups
  /\ threads = NoThreads

NextReset ==
  \/ ExecutorRun
  \/ VisitOp
  \/ PlanDone
  \/ ResetState

SpecReset == InitReset /\ [][NextReset]_vars

C26_WitnessSkipped ==
  /\ pc = "composed"
  /\ frag.runs = 1 /\ ~frag.is_run_called
  /\ frag.thread_pools # <<>>
  /\ nodes # <<>>

(* ------------------------------------------------------------------ *)
(* Connections per edge                                                 *)
(* ------------------------------------------------------------------ *)
(* The edges <<node, output, <<node, input>>>> of the planned graph      *)
(* between two different operators that are not virtual.                 *)
WiredEdges ==
  UNION {UNION {{<<o, sp, t>> :
                   t \in {x \in OutputTargets(o, sp) :
                            ops[x[1]].type # "kVirtual" /\ x[1] # o}} :
                 sp \in DOMAIN ops[o].outputs} :
           o \in {n \in SeqToSet(nodes) : ops[n].type # "kVirtual"}}

(* C27 (as stated): at no time of planning has an edge more than one     *)
(* connection into its destination port, counting the connection from    *)
(* the source port and those from transmitters of the source port's      *)
(* broadcast entity.                                                     *)
C27_AsStated ==
  Planning =>
    \A e \in WiredEdges :
      DirectConnections(e[1], e[2], e[3])
        + BroadcastConnections(e[1], e[2], e[3]) <= 1

(* What holds: no edge has two connections of the same kind.             *)
NoEdgeWiredTwiceTheSameWay ==
  Planning =>
    \A e \in WiredEdges :
      /\ DirectConnections(e[1], e[2], e[3]) <= 1
      /\ BroadcastConnections(e[1], e[2], e[3]) <= 1

(* ------------------------------------------------------------------ *)
(* Where the cycle mitigation is applied                                *)
(* ------------------------------------------------------------------ *)
(* The node o lies on a cycle of the planned graph.                      *)
NodeOnCycle(o) == \E e \in PlannedEdges : e[1] = o /\ OnCycle(PlannedEdges, e)

(* The queue size the input l of o has before planning: the declared     *)
(* one, or the one add_control_flow and add_receivers make the port      *)
(* with.                                                                 *)
QueueSizeBeforePlanning(o, l) ==
  IF o \in DOMAIN decl /\ l \in DOMAIN decl[o].inputs
  THEN decl[o].inputs[l].queue_size
  ELSE IF l = kInputExecPortName THEN kPrecedingCount ELSE kSizeOne

(* The node has the input queue sizes and the metadata policy it had     *)
(* before planning (the policy kDefault resolved to the fragment's).     *)
Unmitigated(o) ==
  /\ \A l \in DOMAIN ops[o].inputs :
       ops[o].inputs[l].queue_size = QueueSizeBeforePlanning(o, l)
  /\ ops[o].metadata_policy =
       IF DeclaredPolicy(o) = "kDefault" THEN "kFragment" ELSE DeclaredPolicy(o)

(* C28 (as stated): an initialized node that lies on no cycle of the     *)
(* graph has the input queue sizes and the metadata policy it was given, *)
(* in whatever order the nodes were inserted.                            *)
C28_AsStated ==
  Planning =>
    \A o \in Initialized :
      (ops[o].type # "kVirtual" /\ ~NodeOnCycle(o)) => Unmitigated(o)

(* What holds: a node the planner detected no cycle at is unmitigated,   *)
(* and detection needs a cycle somewhere in the graph.                   *)
MitigationOnlyWhereDetected ==
  Planning =>
    \A o \in Initialized :
      /\ (ops[o].type # "kVirtual" /\ ~DetectedAt(o)) => Unmitigated(o)
      /\ DetectedAt(o) => ~Acyclic(PlannedEdges)

(* ------------------------------------------------------------------ *)
(* The graph during planning                                            *)
(* ------------------------------------------------------------------ *)
(* A step of the worklist loop.                                          *)
PlanningStep == pc = "planning"

(* The step leaves the nodes, the operators' ports and the edge set as   *)
(* they are.                                                             *)
NodesAndPortsKept ==
  /\ nodes' = nodes
  /\ DOMAIN ops' = DOMAIN ops
  /\ \A o \in DOMAIN ops :
       /\ DOMAIN ops'[o].inputs = DOMAIN ops[o].inputs
       /\ DOMAIN ops'[o].outputs = DOMAIN ops[o].outputs
  /\ DOMAIN edges' = DOMAIN edges

(* The port-map entries <<edge, output label>> of a graph.               *)
PortMapEntries(es) == UNION {{<<e, sp>> : sp \in DOMAIN es[e]} : e \in DOMAIN es}

(* C29 (as stated): a step of the worklist loop changes neither the      *)
(* nodes, nor the ports, nor the edges and their port maps.              *)
C29_AsStated ==
  [][PlanningStep => (NodesAndPortsKept /\ edges' = edges)]_vars

(* C29 (amended): a step of the worklist loop adds and removes no node,  *)
(* no port and no edge, adds no port-map entry and changes none; it      *)
(* removes a port-map entry only of an edge into the node it visits      *)
(* or out of it, and only when the entry's output port has a broadcast   *)
(* entity.                                                               *)
C29_OnlyBroadcastEntriesRemoved ==
  [][PlanningStep =>
       /\ NodesAndPortsKept
       /\ \A x \in PortMapEntries(edges') :
            x \in PortMapEntries(edges) /\ edges'[x[1]][x[2]] = edges[x[1]][x[2]]
       /\ \A x \in PortMapEntries(edges) \ PortMapEntries(edges') :
            /\ <<x[1][1], x[2]>> \in DOMAIN bcast'
            /\ Len(log'.init_order) = Len(log.init_order) + 1
            /\ log'.init_order[Len(log'.init_order)] \in {x[1][1], x[1][2]}]_vars

(* Planning ended on a graph in which an edge lost a port-map entry and  *)
(* another edge kept its own.                                            *)
C29_Witness ==
  /\ PlanningEnded
  /\ PortMapEntries(edges) # {}
  /\ PortMapEntries(plan.edges0) \ PortMapEntries(edges) # {}

(* Planning ended on a graph with edges and no broadcast entity: the     *)
(* port maps are the ones planning began with.                           *)
C29_WitnessUnchanged ==
  /\ PlanningEnded
  /\ bcast = << >>
  /\ PortMapEntries(edges) # {}
  /\ edges = plan.edges0

(* ------------------------------------------------------------------ *)
(* The execution ports of an operator                                   *)
(* ------------------------------------------------------------------ *)
(* C30 (as stated): the recorded output execution spec of an operator    *)
(* is null as long as the operator has no execution output port and is   *)
(* that port afterwards, and so for the input; ports are kept by name,   *)
(* so an operator has at most one of each.                               *)
C30_AsStated ==
  \A o \in DOMAIN ops :
    /\ ops[o].output_exec_spec =
         IF kOutputExecPortName \in DOMAIN ops[o].outputs
         THEN kOutputExecPortName ELSE NullPort
    /\ ops[o].input_exec_spec =
         IF kInputExecPortName \in DOMAIN ops[o].inputs
         THEN kInputExecPortName ELSE NullPort

(* What holds: the recorded specs are null exactly as long as the        *)
(* execution ports are missing, a recorded spec is a port of the         *)
(* operator, and the input execution spec is the input execution port.   *)
ExecSpecsRecorded ==
  \A o \in DOMAIN ops :
    /\ (ops[o].output_exec_spec = NullPort)
         = (kOutputExecPortName \notin DOMAIN ops[o].outputs)
    /\ ops[o].output_exec_spec # NullPort =>
         ops[o].output_exec_spec \in DOMAIN ops[o].outputs
    /\ ops[o].input_exec_spec =
         IF kInputExecPortName \in DOMAIN ops[o].inputs
         THEN kInputExecPortName ELSE NullPort

====
